---------------------------- MODULE Spec2Model ----------------------------
(***************************************************************************)
(* Multi-agent coordination engine: the workflow orchestrator              *)
(* (src/coordination/orchestrator.py).  One workflow is executed by        *)
(* execute_workflow under one of the seven coordination patterns; every    *)
(* task is run by _execute_single_task, whose suspension points (the       *)
(* delegation call and the retry back-off sleep) are the points where      *)
(* concurrently gathered tasks interleave.                                 *)
(***************************************************************************)
EXTENDS Integers, Sequences, FiniteSets, TLC

(***************************************************************************)
(* Bounds of the model.                                                    *)
(***************************************************************************)
MaxTasks == 3
MaxRetries == 1

(***************************************************************************)
(* Python values.  Every value is a record [type, body]; body is a         *)
(* mapping from strings to strings (a str value keeps its text under the   *)
(* key "", a dict its items, None nothing).                                *)
(***************************************************************************)
EmptyBody == [k \in {} |-> ""]
PyNone == [type |-> "none", body |-> EmptyBody]
PyStr(s) == [type |-> "str", body |-> [k \in {""} |-> s]]
PyDict(f) == [type |-> "dict", body |-> f]
ErrorObject(msg) == PyDict([k \in {"error"} |-> msg])
EmptyDict == [k \in {} |-> PyNone]

\* d[key] = value of a Python dict (a function here)
DictSet(d, key, value) ==
    [k \in DOMAIN d \cup {key} |-> IF k = key THEN value ELSE d[k]]

\* d.get(key), None when the key is absent
DictGet(d, key) == IF key \in DOMAIN d THEN d[key] ELSE PyNone

\* d.update(other)
DictUpdate(d, other) ==
    [k \in DOMAIN d \cup DOMAIN other |-> IF k \in DOMAIN other THEN other[k] ELSE d[k]]

(***************************************************************************)
(* Enumerations.                                                           *)
(***************************************************************************)
PENDING == "pending"
RUNNING == "running"
COMPLETED == "completed"
FAILED == "failed"
CANCELLED == "cancelled"
WAITING_DEPENDENCIES == "waiting_dependencies"
TaskStatus == {PENDING, RUNNING, COMPLETED, FAILED, CANCELLED, WAITING_DEPENDENCIES}

SEQUENTIAL == "sequential"
PARALLEL == "parallel"
PIPELINE == "pipeline"
HIERARCHICAL == "hierarchical"
CONSENSUS == "consensus"
COMPETITIVE == "competitive"
COLLABORATIVE == "collaborative"
CoordinationPattern ==
    {SEQUENTIAL, PARALLEL, PIPELINE, HIERARCHICAL, CONSENSUS, COMPETITIVE, COLLABORATIVE}

(***************************************************************************)
(* The orchestrator's agent table, and the inputs of a workflow.           *)
(***************************************************************************)
known_agents == {"hr_agent_specialist", "greeting_agent_social", "main_agent_coordinator"}

\* agent ids the submitted tasks name: a known agent and one that is not known
AgentIds == {"hr_agent_specialist", "nonexistent_agent"}

TaskId(i) == "t" \o ToString(i)
MissingTaskId == "missing"

\* what an agent can answer to a delegation: a text, or a mapping
AgentResults(t) == {PyStr("text"), PyDict([k \in {"out"} |-> TaskId(t)])}
\* the error text of a reply that is not a successful delegation response
AgentErrors == {"Task execution failed"}

\* the workflow context handed to execute_workflow
Context == [k \in {"department"} |-> "Engineering"]

VARIABLES
    pattern,          \* the coordination pattern of the workflow
    tasks,            \* the TaskNode list: tasks[i] is the i-th task
    hpc,              \* position of execute_workflow / the pattern handler
    idx,              \* loop index of the sequential and pipeline handlers
    results,          \* the handler's results dict
    pipeline_data,    \* the pipeline handler's accumulating dict
    gathered_info,    \* the collaborative handler's gathered_info dict
    completed_tasks,  \* the hierarchical handler's completed set
    ready_tasks,      \* the tasks gathered by the running fan-out, in order
    tpc,              \* position of each task's _execute_single_task coroutine
    attempts,         \* number of times _execute_single_task was entered, per task
    last_sent,        \* input_data of the last delegation message sent, per task
    handler_outcome,  \* how the pattern handler ended: returned, or raised a message
    workflow_result,  \* the WorkflowResult returned, or the empty record before
    call_args,        \* the argument of a function called on its own
    call_result,      \* what that call returned
    secret_key_arg,   \* the secret_key argument A2AProtocol was constructed with
    a2a,              \* the A2AProtocol object
    uuids,            \* number of message ids drawn from uuid4
    messages,         \* the A2AMessage objects held by the caller
    as_created,       \* each message as create_message returned it
    verified,         \* the last verify_message call and its result
    incoming,         \* the last handle_incoming_message call and its result
    posts,            \* the HTTP requests made with requests.post, in order
    pending_requests, \* the A2AProtocol object's pending_requests: correlation id -> time
    a2a_known_agents, \* the A2AProtocol object's known_agents: agent_id -> endpoint
    clock,            \* time.time(), in units of request_timeout
    cleanup,          \* the cleanup thread: its position and its local variables
    delegation        \* the delegate_task call in progress: position and locals

net_vars ==
    <<posts, pending_requests, a2a_known_agents, clock, cleanup, delegation>>

a2a_vars ==
    <<secret_key_arg, a2a, uuids, messages, as_created, verified, incoming, net_vars>>

orchestrator_vars ==
    <<pattern, tasks, hpc, idx, results, pipeline_data, gathered_info,
      completed_tasks, ready_tasks, tpc, attempts, last_sent, handler_outcome,
      workflow_result, call_args, call_result>>

vars == <<orchestrator_vars, a2a_vars>>

\* no A2AProtocol object has been constructed
NoProtocol == [constructed |-> FALSE]
NoVerify == [message |-> 0]
NoIncoming == [message |-> 0]

\* the empty pending_requests; the cleanup thread not started
NoRequests == [correlation_id \in {} |-> 0]
NoCleanup == [pc |-> "not_started"]
NoDelegation == [pc |-> "idle"]

\* del pending_requests[correlation_id]
Forget(pending, correlation_id) ==
    [k \in DOMAIN pending \ {correlation_id} |-> pending[k]]

NoA2A ==
    /\ secret_key_arg = PyNone
    /\ a2a = NoProtocol
    /\ uuids = 0
    /\ messages = <<>>
    /\ as_created = <<>>
    /\ verified = NoVerify
    /\ incoming = NoIncoming
    /\ posts = <<>>
    /\ pending_requests = NoRequests
    /\ a2a_known_agents = <<>>
    /\ clock = 0
    /\ cleanup = NoCleanup
    /\ delegation = NoDelegation

N == Len(tasks)
TaskIdx == 1..N

(***************************************************************************)
(* TaskNode, as the caller constructs it.                                  *)
(***************************************************************************)
TaskNode(i, agent, deps, maxr, meta) ==
    [task_id |-> TaskId(i), agent_id |-> agent, input_data |-> EmptyBody,
     dependencies |-> deps, status |-> PENDING, result |-> PyNone, error |-> "",
     start_time |-> FALSE, end_time |-> FALSE, retry_count |-> 0,
     max_retries |-> maxr, metadata |-> meta]

(***************************************************************************)
(* _execute_single_task.  A coroutine is "idle" before it is created,      *)
(* "running" while the delegation is awaited, "sleeping" in the retry      *)
(* back-off, and ends "returned" (with task.result) or "raised" (with an   *)
(* exception whose text is task.error).                                    *)
(***************************************************************************)

\* the input_data a delegation message carries: previous_results and
\* pipeline_data are the handler's own dict objects, read when the message is built
MessageInputData(base, t) ==
    [k \in DOMAIN base[t].input_data |->
        IF k = "previous_results" THEN results
        ELSE IF k = "pipeline_data" THEN pipeline_data
        ELSE base[t].input_data[k]]

NotSent == [sent |-> FALSE]
Sent(data) == [sent |-> TRUE, input_data |-> data]

\* CanRetry with the retry test off by one
CanRetryOffByOne(task) == task.retry_count <= task.max_retries

\* the retry test of the except branch
CanRetry(task) == task.retry_count < task.max_retries

\* the except branch: the task is marked FAILED with the error and the end
\* time; with retries left retry_count is incremented before the back-off
FailedTask(task, msg) ==
    [task EXCEPT !.status = FAILED, !.error = msg, !.end_time = TRUE,
                 !.retry_count = IF CanRetry(task) THEN @ + 1 ELSE @]

\* AfterFailure with the retry taken whatever the retry count
AfterFailureRetryForever(task) == "sleeping"

\* where the except branch leaves the coroutine: in the back-off sleep before
\* the recursive call, or ended by re-raising the exception
AfterFailure(task) == IF CanRetry(task) THEN "sleeping" ELSE "raised"

UnknownAgentError(task) == "Unknown agent: " \o task.agent_id

\* a task from the entry of _execute_single_task to its first await: the
\* delegation call to a known agent, or, the agent being unknown (which raises
\* before anything is sent), the end of the except branch
EnteredTask(task) ==
    IF task.agent_id \in known_agents
    THEN [task EXCEPT !.start_time = TRUE, !.status = RUNNING]
    ELSE FailedTask([task EXCEPT !.start_time = TRUE, !.status = RUNNING],
                    UnknownAgentError(task))

InList(ts, t) == \E j \in 1..Len(ts) : ts[j] = t

\* _execute_single_task is entered for each task of the list ts; base is the
\* task list as the caller of the coroutines left it
BeginAttempts(base, ts) ==
    /\ tasks' = [t \in DOMAIN base |->
                    IF InList(ts, t) THEN EnteredTask(base[t]) ELSE base[t]]
    /\ attempts' = [t \in DOMAIN base |->
                       IF InList(ts, t) THEN attempts[t] + 1 ELSE attempts[t]]
    /\ tpc' = [t \in DOMAIN base |->
                  IF ~InList(ts, t) THEN tpc[t]
                  ELSE IF base[t].agent_id \in known_agents THEN "running"
                  ELSE AfterFailure(base[t])]
    /\ last_sent' = [t \in DOMAIN base |->
                        IF InList(ts, t) /\ base[t].agent_id \in known_agents
                        THEN Sent(MessageInputData(base, t))
                        ELSE last_sent[t]]

BeginAttempt(base, t) == BeginAttempts(base, <<t>>)

\* a successful delegation response
CompleteAttempt(t, r) ==
    /\ tasks' = [tasks EXCEPT ![t].status = COMPLETED, ![t].result = r,
                              ![t].end_time = TRUE]
    /\ tpc' = [tpc EXCEPT ![t] = "returned"]

\* any other outcome of the delegation call
HandleFailure(t, msg) ==
    /\ tasks' = [tasks EXCEPT ![t] = FailedTask(@, msg)]
    /\ tpc' = [tpc EXCEPT ![t] = AfterFailure(tasks[t])]

\* the delegation call returns a successful delegation response
AgentSuccess(t) ==
    /\ tpc[t] = "running"
    /\ \E r \in AgentResults(t) : CompleteAttempt(t, r)
    /\ UNCHANGED <<a2a_vars, call_args, call_result, pattern, hpc, idx, results, pipeline_data, gathered_info,
                   completed_tasks, ready_tasks, attempts, last_sent, handler_outcome,
                   workflow_result>>

\* the delegation call returns anything else (an error reply, a transport error)
AgentFailure(t) ==
    /\ tpc[t] = "running"
    /\ \E e \in AgentErrors : HandleFailure(t, e)
    /\ UNCHANGED <<a2a_vars, call_args, call_result, pattern, hpc, idx, results, pipeline_data, gathered_info,
                   completed_tasks, ready_tasks, attempts, last_sent, handler_outcome,
                   workflow_result>>

\* the back-off sleep ends and _execute_single_task calls itself
RetryTask(t) ==
    /\ tpc[t] = "sleeping"
    /\ BeginAttempt(tasks, t)
    /\ UNCHANGED <<a2a_vars, call_args, call_result, pattern, hpc, idx, results, pipeline_data, gathered_info,
                   completed_tasks, ready_tasks, handler_outcome, workflow_result>>

TaskDone(t) == tpc[t] \in {"returned", "raised"}

(***************************************************************************)
(* execute_workflow: the try block's normal end and its except branch.     *)
(***************************************************************************)
CountStatus(final, st) == Cardinality({t \in DOMAIN final : final[t].status = st})

\* WorkflowMetrics counting every task that did not fail as a success
WorkflowMetricsNotFailed(final) ==
    [task_count |-> Len(final),
     agent_count |-> Cardinality({final[t].agent_id : t \in DOMAIN final}),
     success_rate |-> IF Len(final) > 0
                      THEN [num |-> Len(final) - CountStatus(final, FAILED),
                            den |-> Len(final)]
                      ELSE [num |-> 0, den |-> 1]]

\* _calculate_workflow_metrics on the tasks as the handler left them (the timing
\* statistics, which no decision reads, are left out)
WorkflowMetrics(final) ==
    [task_count |-> Len(final),
     agent_count |-> Cardinality({final[t].agent_id : t \in DOMAIN final}),
     success_rate |-> IF Len(final) > 0
                      THEN [num |-> CountStatus(final, COMPLETED), den |-> Len(final)]
                      ELSE [num |-> 0, den |-> 1]]

\* _generate_workflow_summary (up to the list of agents, whose order is that of a set)
WorkflowSummary(final) ==
    "Workflow 'wf': " \o ToString(CountStatus(final, COMPLETED)) \o "/"
      \o ToString(Len(final)) \o " tasks completed"
      \o (IF CountStatus(final, FAILED) > 0
          THEN ", " \o ToString(CountStatus(final, FAILED)) \o " failed" ELSE "")

NoResult == [status |-> "none"]

\* the end of the try block: the handler returned res
WorkflowReturn(res, final) ==
    /\ workflow_result' = [status |-> COMPLETED, results |-> res,
                           summary |-> WorkflowSummary(final),
                           metrics |-> WorkflowMetrics(final)]
    /\ hpc' = "done"

\* WorkflowExcept re-raising the exception instead of returning a result
WorkflowExceptReraise(msg, final) ==
    /\ workflow_result' = workflow_result
    /\ hpc' = "propagated"

\* WorkflowExcept putting the summary's text into results as well
WorkflowExceptPrefixed(msg, final) ==
    /\ workflow_result' = [status |-> FAILED,
                           results |-> [k \in {"error"} |-> "Workflow failed: " \o msg],
                           summary |-> "Workflow failed: " \o msg,
                           metrics |-> WorkflowMetrics(final)]
    /\ hpc' = "done"

\* the except branch: the handler raised an exception with text msg
WorkflowExcept(msg, final) ==
    /\ workflow_result' = [status |-> FAILED, results |-> [k \in {"error"} |-> msg],
                           summary |-> "Workflow failed: " \o msg,
                           metrics |-> WorkflowMetrics(final)]
    /\ hpc' = "done"

\* how the awaited handler ends, and what execute_workflow does then
NotEnded == [kind |-> "none", message |-> ""]

HandlerReturns(res, final) ==
    /\ handler_outcome' = [kind |-> "returned", message |-> ""]
    /\ WorkflowReturn(res, final)

HandlerRaises(msg, final) ==
    /\ handler_outcome' = [kind |-> "raised", message |-> msg]
    /\ WorkflowExcept(msg, final)

(***************************************************************************)
(* SEQUENTIAL                                                              *)
(***************************************************************************)
\* task.input_data.update(data)
WithInput(base, t, data) == [base EXCEPT ![t].input_data = DictUpdate(@, data)]

\* the alias of a dict object of the handler stored in input_data
Alias(name) == "<" \o name \o ">"

\* execute_workflow enters the handler
SequentialStart ==
    /\ hpc = "idle" /\ pattern = SEQUENTIAL
    /\ hpc' = SEQUENTIAL /\ results' = EmptyDict /\ idx' = 1
    /\ UNCHANGED <<a2a_vars, call_args, call_result, pattern, tasks, pipeline_data, gathered_info, completed_tasks,
                   ready_tasks, tpc, attempts, last_sent, handler_outcome,
                   workflow_result>>

\* loop body up to the await: the input is enriched and the task is executed
SequentialLaunch ==
    /\ hpc = SEQUENTIAL /\ idx <= N /\ tpc[idx] = "idle"
    /\ BeginAttempt(WithInput(tasks, idx,
                              [k \in {"previous_results", "context"} |->
                                  IF k = "context" THEN Context ELSE Alias("results")]),
                    idx)
    /\ UNCHANGED <<a2a_vars, call_args, call_result, pattern, hpc, idx, results, pipeline_data, gathered_info, completed_tasks,
                   ready_tasks, handler_outcome, workflow_result>>

\* SequentialCollect forgetting to record the result
SequentialCollectUnrecorded ==
    /\ hpc = SEQUENTIAL /\ idx <= N /\ tpc[idx] = "returned"
    /\ idx' = idx + 1
    /\ UNCHANGED <<a2a_vars, call_args, call_result, pattern, tasks, hpc, results, pipeline_data,
                   gathered_info, completed_tasks, ready_tasks, tpc, attempts,
                   last_sent, handler_outcome, workflow_result>>

\* _execute_single_task returned: the result is recorded, a failed critical task
\* stops the workflow, otherwise the loop goes on
SequentialCollect ==
    /\ hpc = SEQUENTIAL /\ idx <= N /\ tpc[idx] = "returned"
    /\ results' = DictSet(results, tasks[idx].task_id, tasks[idx].result)
    /\ IF tasks[idx].status = FAILED /\ tasks[idx].metadata.critical
       THEN /\ HandlerRaises("Critical task '" \o tasks[idx].task_id \o "' failed: "
                                \o tasks[idx].error, tasks)
            /\ idx' = idx
       ELSE /\ idx' = idx + 1
            /\ UNCHANGED <<hpc, handler_outcome, workflow_result>>
    /\ UNCHANGED <<a2a_vars, call_args, call_result, pattern, tasks, pipeline_data, gathered_info, completed_tasks, ready_tasks,
                   tpc, attempts, last_sent>>

\* SequentialRaise with the task's exception caught and turned into an error
\* entry, the loop going on
SequentialRaiseSwallowed ==
    /\ hpc = SEQUENTIAL /\ idx <= N /\ tpc[idx] = "raised"
    /\ results' = DictSet(results, tasks[idx].task_id, ErrorObject(tasks[idx].error))
    /\ idx' = idx + 1
    /\ UNCHANGED <<a2a_vars, call_args, call_result, pattern, tasks, hpc, pipeline_data,
                   gathered_info, completed_tasks, ready_tasks, tpc, attempts,
                   last_sent, handler_outcome, workflow_result>>

\* _execute_single_task raised: the exception leaves the handler
SequentialRaise ==
    /\ hpc = SEQUENTIAL /\ idx <= N /\ tpc[idx] = "raised"
    /\ HandlerRaises(tasks[idx].error, tasks)
    /\ UNCHANGED <<a2a_vars, call_args, call_result, pattern, tasks, idx, results, pipeline_data, gathered_info, completed_tasks,
                   ready_tasks, tpc, attempts, last_sent>>

\* the loop is over
SequentialReturn ==
    /\ hpc = SEQUENTIAL /\ idx = N + 1
    /\ HandlerReturns(results, tasks)
    /\ UNCHANGED <<a2a_vars, call_args, call_result, pattern, tasks, idx, results, pipeline_data, gathered_info, completed_tasks,
                   ready_tasks, tpc, attempts, last_sent>>

(***************************************************************************)
(* asyncio.gather with return_exceptions=True.  The coroutines it creates  *)
(* take their first step, in list order, in the event loop's next turn,    *)
(* before any reply or timer is handled: the fan-out is one step.          *)
(***************************************************************************)
\* every gathered coroutine has ended
GatherDone == \A j \in 1..Len(ready_tasks) : TaskDone(ready_tasks[j])

\* the loop over zip(tasks, task_results) shared by the parallel and the
\* hierarchical handler: an exception marks the task FAILED and leaves an error
\* object, a result is stored as it is
CollectedTasks ==
    [t \in TaskIdx |->
        IF InList(ready_tasks, t) /\ tpc[t] = "raised"
        THEN [tasks[t] EXCEPT !.status = FAILED, !.error = tasks[t].error]
        ELSE tasks[t]]

RECURSIVE CollectedResults(_, _)
CollectedResults(res, j) ==
    IF j > Len(ready_tasks) THEN res
    ELSE LET t == ready_tasks[j]
         IN  CollectedResults(
                 DictSet(res, tasks[t].task_id,
                         IF tpc[t] = "raised" THEN ErrorObject(tasks[t].error)
                         ELSE tasks[t].result),
                 j + 1)

\* the task indexes 1..n as a list
RECURSIVE Range(_)
Range(n) == IF n = 0 THEN <<>> ELSE Append(Range(n - 1), n)

(***************************************************************************)
(* PARALLEL                                                                *)
(***************************************************************************)
\* task.input_data.update(data(t)) for every listed task
RECURSIVE WithInputs(_, _, _, _)
WithInputs(base, ts, data(_), j) ==
    IF j > Len(ts) THEN base
    ELSE WithInputs(WithInput(base, ts[j], data(ts[j])), ts, data, j + 1)

ContextInput(t) == [k \in {"context"} |-> Context]

\* execute_workflow enters the handler, which prepares every task and gathers them
ParallelStart ==
    /\ hpc = "idle" /\ pattern = PARALLEL
    /\ hpc' = PARALLEL
    /\ BeginAttempts(WithInputs(tasks, Range(N), ContextInput, 1), Range(N))
    /\ ready_tasks' = Range(N)
    /\ UNCHANGED <<a2a_vars, call_args, call_result, pattern, idx, results, pipeline_data, gathered_info,
                   completed_tasks, handler_outcome, workflow_result>>

\* ParallelCollect as if the gather did not return exceptions: the first
\* exception leaves the handler
ParallelCollectPropagating ==
    /\ hpc = PARALLEL /\ GatherDone
    /\ IF \E t \in TaskIdx : tpc[t] = "raised"
       THEN /\ HandlerRaises(tasks[CHOOSE t \in TaskIdx : tpc[t] = "raised"].error, tasks)
            /\ UNCHANGED <<tasks, results>>
       ELSE /\ tasks' = CollectedTasks
            /\ results' = CollectedResults(EmptyDict, 1)
            /\ HandlerReturns(results', tasks')
    /\ UNCHANGED <<a2a_vars, call_args, call_result, pattern, idx, pipeline_data, gathered_info,
                   completed_tasks, ready_tasks, tpc, attempts, last_sent>>

ParallelCollect ==
    /\ hpc = PARALLEL /\ GatherDone
    /\ tasks' = CollectedTasks
    /\ results' = CollectedResults(EmptyDict, 1)
    /\ HandlerReturns(results', tasks')
    /\ UNCHANGED <<a2a_vars, call_args, call_result, pattern, idx, pipeline_data, gathered_info, completed_tasks, ready_tasks,
                   tpc, attempts, last_sent>>

(***************************************************************************)
(* PIPELINE                                                                *)
(***************************************************************************)
PipelineStart ==
    /\ hpc = "idle" /\ pattern = PIPELINE
    /\ hpc' = PIPELINE /\ results' = EmptyDict /\ pipeline_data' = Context /\ idx' = 1
    /\ UNCHANGED <<a2a_vars, call_args, call_result, pattern, tasks, gathered_info, completed_tasks, ready_tasks, tpc,
                   attempts, last_sent, handler_outcome, workflow_result>>

PipelineInput(i) ==
    [k \in {"pipeline_data", "stage_number", "total_stages"} |->
        IF k = "pipeline_data" THEN Alias("pipeline_data")
        ELSE IF k = "stage_number" THEN ToString(i) ELSE ToString(N)]

\* the stage's input is fed with the pipeline data and the stage is executed
PipelineLaunch ==
    /\ hpc = PIPELINE /\ idx <= N /\ tpc[idx] = "idle"
    /\ BeginAttempt(WithInput(tasks, idx, PipelineInput(idx)), idx)
    /\ UNCHANGED <<a2a_vars, call_args, call_result, pattern, hpc, idx, results, pipeline_data, gathered_info,
                   completed_tasks, ready_tasks, handler_outcome, workflow_result>>

\* PipelineCollect merging the result of a stage whatever its type
PipelineCollectMergeAll ==
    /\ hpc = PIPELINE /\ idx <= N /\ tpc[idx] = "returned"
    /\ results' = DictSet(results, tasks[idx].task_id, tasks[idx].result)
    /\ pipeline_data' = DictUpdate(pipeline_data, tasks[idx].result.body)
    /\ idx' = idx + 1
    /\ UNCHANGED <<a2a_vars, call_args, call_result, pattern, tasks, gathered_info,
                   completed_tasks, ready_tasks, tpc, attempts, last_sent, hpc,
                   handler_outcome, workflow_result>>

\* the stage returned: its result is recorded and, if a mapping, merged into the
\* pipeline data; a FAILED stage breaks the pipeline
PipelineCollect ==
    /\ hpc = PIPELINE /\ idx <= N /\ tpc[idx] = "returned"
    /\ results' = DictSet(results, tasks[idx].task_id, tasks[idx].result)
    /\ pipeline_data' = IF tasks[idx].status = COMPLETED /\ tasks[idx].result.type = "dict"
                        THEN DictUpdate(pipeline_data, tasks[idx].result.body)
                        ELSE pipeline_data
    /\ IF tasks[idx].status = FAILED
       THEN /\ HandlerRaises("Pipeline broken at stage " \o ToString(idx) \o ": "
                                \o tasks[idx].error, tasks)
            /\ idx' = idx
       ELSE /\ idx' = idx + 1
            /\ UNCHANGED <<hpc, handler_outcome, workflow_result>>
    /\ UNCHANGED <<a2a_vars, call_args, call_result, pattern, tasks, gathered_info, completed_tasks, ready_tasks,
                   tpc, attempts, last_sent>>

\* PipelineRaise with the stage's exception caught and turned into an error
\* entry, the pipeline going on
PipelineRaiseSwallowed ==
    /\ hpc = PIPELINE /\ idx <= N /\ tpc[idx] = "raised"
    /\ results' = DictSet(results, tasks[idx].task_id, ErrorObject(tasks[idx].error))
    /\ idx' = idx + 1
    /\ UNCHANGED <<a2a_vars, call_args, call_result, pattern, tasks, hpc, pipeline_data,
                   gathered_info, completed_tasks, ready_tasks, tpc, attempts,
                   last_sent, handler_outcome, workflow_result>>

\* _execute_single_task raised: the exception leaves the handler
PipelineRaise ==
    /\ hpc = PIPELINE /\ idx <= N /\ tpc[idx] = "raised"
    /\ HandlerRaises(tasks[idx].error, tasks)
    /\ UNCHANGED <<a2a_vars, call_args, call_result, pattern, tasks, idx, results, pipeline_data, gathered_info,
                   completed_tasks, ready_tasks, tpc, attempts, last_sent>>

PipelineReturn ==
    /\ hpc = PIPELINE /\ idx = N + 1
    /\ HandlerReturns(results, tasks)
    /\ UNCHANGED <<a2a_vars, call_args, call_result, pattern, tasks, idx, results, pipeline_data, gathered_info,
                   completed_tasks, ready_tasks, tpc, attempts, last_sent>>

(***************************************************************************)
(* HIERARCHICAL                                                            *)
(***************************************************************************)
HierarchicalStart ==
    /\ hpc = "idle" /\ pattern = HIERARCHICAL
    /\ hpc' = HIERARCHICAL /\ results' = EmptyDict /\ completed_tasks' = {}
    /\ UNCHANGED <<a2a_vars, call_args, call_result, pattern, tasks, idx, pipeline_data, gathered_info, ready_tasks,
                   tpc, attempts, last_sent, handler_outcome, workflow_result>>

\* IsReady without the test that the task has not been completed
IsReadyAgain(t) == \A dep \in tasks[t].dependencies : dep \in completed_tasks

\* a task is ready when it is not in completed_tasks and all its dependencies are
IsReady(t) ==
    /\ tasks[t].task_id \notin completed_tasks
    /\ \A dep \in tasks[t].dependencies : dep \in completed_tasks

\* the ready tasks, in list order
RECURSIVE ReadyTasks(_)
ReadyTasks(n) ==
    IF n = 0 THEN <<>>
    ELSE IF IsReady(n) THEN Append(ReadyTasks(n - 1), n) ELSE ReadyTasks(n - 1)

\* DependencyInput with the results of every task completed so far
DependencyInputAll(t) ==
    [k \in {"dependency_results", "context"} |->
        IF k = "context" THEN Context
        ELSE [dep \in completed_tasks |-> DictGet(results, dep)]]

\* the dependency_results and the context a ready task is given
DependencyInput(t) ==
    [k \in {"dependency_results", "context"} |->
        IF k = "context" THEN Context
        ELSE [dep \in tasks[t].dependencies |-> DictGet(results, dep)]]

\* HierarchicalLevel without the test of an empty ready list
HierarchicalLevelUnchecked ==
    /\ hpc = HIERARCHICAL /\ Cardinality(completed_tasks) < N
    /\ BeginAttempts(WithInputs(tasks, ReadyTasks(N), DependencyInput, 1), ReadyTasks(N))
    /\ ready_tasks' = ReadyTasks(N)
    /\ hpc' = "hierarchical_gather"
    /\ UNCHANGED <<a2a_vars, call_args, call_result, pattern, idx, results, pipeline_data,
                   gathered_info, completed_tasks, handler_outcome, workflow_result>>

\* one turn of the while loop up to the gather: no ready task is an error
HierarchicalLevel ==
    /\ hpc = HIERARCHICAL /\ Cardinality(completed_tasks) < N
    /\ IF ReadyTasks(N) = <<>>
       THEN /\ HandlerRaises("Circular dependency or unresolvable dependencies detected",
                              tasks)
            /\ UNCHANGED <<tasks, ready_tasks, tpc, attempts, last_sent>>
       ELSE /\ BeginAttempts(WithInputs(tasks, ReadyTasks(N), DependencyInput, 1),
                             ReadyTasks(N))
            /\ ready_tasks' = ReadyTasks(N)
            /\ hpc' = "hierarchical_gather"
            /\ UNCHANGED <<handler_outcome, workflow_result>>
    /\ UNCHANGED <<a2a_vars, call_args, call_result, pattern, idx, results, pipeline_data, gathered_info,
                   completed_tasks>>

\* the gather of a level ended: results and completed_tasks are updated
HierarchicalCollect ==
    /\ hpc = "hierarchical_gather" /\ GatherDone
    /\ tasks' = CollectedTasks
    /\ results' = CollectedResults(results, 1)
    /\ completed_tasks' = completed_tasks \cup
                            {tasks[ready_tasks[j]].task_id : j \in 1..Len(ready_tasks)}
    /\ hpc' = HIERARCHICAL
    /\ UNCHANGED <<a2a_vars, call_args, call_result, pattern, idx, pipeline_data, gathered_info, ready_tasks, tpc,
                   attempts, last_sent, handler_outcome, workflow_result>>

HierarchicalReturn ==
    /\ hpc = HIERARCHICAL /\ ~(Cardinality(completed_tasks) < N)
    /\ HandlerReturns(results, tasks)
    /\ UNCHANGED <<a2a_vars, call_args, call_result, pattern, tasks, idx, results, pipeline_data, gathered_info,
                   completed_tasks, ready_tasks, tpc, attempts, last_sent>>

(***************************************************************************)
(* Ordered dicts (agent_responses, agent_results): the list of their       *)
(* [key, value] items in insertion order.                                  *)
(***************************************************************************)
\* d[key] = value: a new key is appended, a known key keeps its place
RECURSIVE OrderedSet(_, _, _)
OrderedSet(d, key, value) ==
    IF d = <<>> THEN <<[key |-> key, value |-> value]>>
    ELSE IF Head(d).key = key THEN <<[key |-> key, value |-> value]>> \o Tail(d)
    ELSE <<Head(d)>> \o OrderedSet(Tail(d), key, value)

\* the dict built from the gathered tasks that did not raise, keyed by agent_id
RECURSIVE ByAgent(_, _, _)
ByAgent(d, value(_), j) ==
    IF j > Len(ready_tasks) THEN d
    ELSE LET t == ready_tasks[j]
         IN  ByAgent(IF tpc[t] = "raised" THEN d
                     ELSE OrderedSet(d, tasks[t].agent_id, value(t)),
                     value, j + 1)

\* str(value): the text of a str, the repr of a dict (of one item at most)
Str(v) ==
    IF v.type = "none" THEN "None"
    ELSE IF v.type = "str" THEN v.body[""]
    ELSE IF DOMAIN v.body = {} THEN "{}"
    ELSE LET k == CHOOSE k \in DOMAIN v.body : TRUE
         IN  "{'" \o k \o "': '" \o v.body[k] \o "'}"

(***************************************************************************)
(* CONSENSUS                                                               *)
(***************************************************************************)
\* response_counts[response_str] = response_counts.get(response_str, 0) + 1
RECURSIVE CountOf(_, _)
CountOf(counts, key) ==
    IF counts = <<>> THEN 0
    ELSE IF Head(counts).key = key THEN Head(counts).value
    ELSE CountOf(Tail(counts), key)

RECURSIVE ResponseCounts(_, _)
ResponseCounts(agent_responses, counts) ==
    IF agent_responses = <<>> THEN counts
    ELSE LET response_str == Str(Head(agent_responses).value)
         IN  ResponseCounts(Tail(agent_responses),
                            OrderedSet(counts, response_str,
                                       CountOf(counts, response_str) + 1))

\* MaxItem keeping the last of the largest items
RECURSIVE MaxItemLast(_, _)
MaxItemLast(items, best) ==
    IF items = <<>> THEN best
    ELSE MaxItemLast(Tail(items),
                     IF Head(items).value >= best.value THEN Head(items) ELSE best)

\* max(items, key=...): the first item whose key value is the largest
RECURSIVE MaxItem(_, _)
MaxItem(items, best) ==
    IF items = <<>> THEN best
    ELSE MaxItem(Tail(items), IF Head(items).value > best.value THEN Head(items) ELSE best)

_determine_consensus(agent_responses) ==
    IF agent_responses = <<>> THEN PyNone
    ELSE LET response_counts == ResponseCounts(agent_responses, <<>>)
         IN  PyStr(MaxItem(Tail(response_counts), Head(response_counts)).key)

ConsensusInput(t) ==
    [k \in {"context", "consensus_mode"} |-> IF k = "context" THEN Context ELSE "True"]

ConsensusStart ==
    /\ hpc = "idle" /\ pattern = CONSENSUS
    /\ hpc' = CONSENSUS
    /\ BeginAttempts(WithInputs(tasks, Range(N), ConsensusInput, 1), Range(N))
    /\ ready_tasks' = Range(N)
    /\ UNCHANGED <<a2a_vars, call_args, call_result, pattern, idx, results, pipeline_data, gathered_info,
                   completed_tasks, handler_outcome, workflow_result>>

TaskResult(t) == tasks[t].result

ConsensusCollect ==
    /\ hpc = CONSENSUS /\ GatherDone
    /\ LET agent_responses == ByAgent(<<>>, TaskResult, 1)
       IN  HandlerReturns([consensus_result |-> _determine_consensus(agent_responses),
                           individual_responses |-> agent_responses,
                           consensus_method |-> "majority_vote"], tasks)
    /\ UNCHANGED <<a2a_vars, call_args, call_result, pattern, tasks, idx, results, pipeline_data, gathered_info,
                   completed_tasks, ready_tasks, tpc, attempts, last_sent>>

(***************************************************************************)
(* COMPETITIVE.  Scores are kept in hundredths.                            *)
(***************************************************************************)
Min(a, b) == IF a < b THEN a ELSE b
Max(a, b) == IF a > b THEN a ELSE b

\* "not result": None, the empty text and the empty mapping are falsy
Falsy(v) == v.type = "none" \/ (v.type = "str" /\ v.body[""] = "")
            \/ (v.type = "dict" /\ DOMAIN v.body = {})

_evaluate_result_quality(result) ==
    IF Falsy(result) THEN 0
    ELSE LET length == Len(Str(result))
             length_score == Min(500, length)
             structure_bonus == IF result.type = "dict" THEN 200 ELSE 0
             detail_bonus == IF length > 200 THEN 200 ELSE 100
         IN  Min(1000, length_score + structure_bonus + detail_bonus)

\* WinnerFrom leaving the speed bonus out of the score
RECURSIVE WinnerFromQualityOnly(_, _, _)
WinnerFromQualityOnly(items, best_score, winner) ==
    IF items = <<>> THEN winner
    ELSE LET total_score == Head(items).value.quality_score
         IN  IF total_score > best_score
             THEN WinnerFromQualityOnly(Tail(items), total_score, Head(items).key)
             ELSE WinnerFromQualityOnly(Tail(items), best_score, winner)

\* the loop of _determine_winner over the items, from the best found so far
RECURSIVE WinnerFrom(_, _, _)
WinnerFrom(items, best_score, winner) ==
    IF items = <<>> THEN winner
    ELSE LET data == Head(items).value
             speed_bonus == Max(0, 10 - data.execution_time)
             total_score == data.quality_score + speed_bonus * 10
         IN  IF total_score > best_score
             THEN WinnerFrom(Tail(items), total_score, Head(items).key)
             ELSE WinnerFrom(Tail(items), best_score, winner)

NoWinner == ""

_determine_winner(agent_results) ==
    IF agent_results = <<>> THEN NoWinner
    ELSE WinnerFrom(agent_results, -100, NoWinner)

\* seconds between a task's start_time and end_time, as read when the
\* competitors are evaluated
ExecutionTimes == {1, 12}

CompetitiveInput(t) ==
    [k \in {"context", "competitive_mode"} |-> IF k = "context" THEN Context ELSE "True"]

CompetitiveStart ==
    /\ hpc = "idle" /\ pattern = COMPETITIVE
    /\ hpc' = COMPETITIVE
    /\ BeginAttempts(WithInputs(tasks, Range(N), CompetitiveInput, 1), Range(N))
    /\ ready_tasks' = Range(N)
    /\ UNCHANGED <<a2a_vars, call_args, call_result, pattern, idx, results, pipeline_data, gathered_info,
                   completed_tasks, handler_outcome, workflow_result>>

CompetitiveCollect ==
    /\ hpc = COMPETITIVE /\ GatherDone
    /\ \E elapsed \in [{t \in TaskIdx : tpc[t] = "returned"} -> ExecutionTimes] :
         LET Entry(t) == [result |-> tasks[t].result,
                          execution_time |-> elapsed[t],
                          quality_score |-> _evaluate_result_quality(tasks[t].result)]
             agent_results == ByAgent(<<>>, Entry, 1)
             winner == _determine_winner(agent_results)
             Lookup(key) == (CHOOSE j \in 1..Len(agent_results) :
                                agent_results[j].key = key)
         IN  HandlerReturns(
                 [winner |-> winner,
                  winning_result |-> IF winner # NoWinner
                                     THEN agent_results[Lookup(winner)].value.result
                                     ELSE PyNone,
                  all_results |-> agent_results,
                  competition_method |-> "quality_and_speed"], tasks)
    /\ UNCHANGED <<a2a_vars, call_args, call_result, pattern, tasks, idx, results, pipeline_data, gathered_info,
                   completed_tasks, ready_tasks, tpc, attempts, last_sent>>

(***************************************************************************)
(* COLLABORATIVE                                                           *)
(***************************************************************************)
\* PhaseTasks taking the tasks without a phase tag as process tasks
RECURSIVE PhaseTasksUntagged(_, _)
PhaseTasksUntagged(phase, n) ==
    IF n = 0 THEN <<>>
    ELSE IF \/ tasks[n].metadata.phase = phase
            \/ (phase = "process" /\ tasks[n].metadata.phase = "none")
         THEN Append(PhaseTasksUntagged(phase, n - 1), n)
    ELSE PhaseTasksUntagged(phase, n - 1)

\* [task for task in tasks if task.metadata.get("phase") == phase]
RECURSIVE PhaseTasks(_, _)
PhaseTasks(phase, n) ==
    IF n = 0 THEN <<>>
    ELSE IF tasks[n].metadata.phase = phase THEN Append(PhaseTasks(phase, n - 1), n)
    ELSE PhaseTasks(phase, n - 1)

gather_tasks == PhaseTasks("gather", N)
process_tasks == PhaseTasks("process", N)

CollaborativeStart ==
    /\ hpc = "idle" /\ pattern = COLLABORATIVE
    /\ hpc' = "collaborative_gather" /\ gathered_info' = EmptyDict /\ idx' = 1
    /\ UNCHANGED <<a2a_vars, call_args, call_result, pattern, tasks, results, pipeline_data, completed_tasks,
                   ready_tasks, tpc, attempts, last_sent, handler_outcome,
                   workflow_result>>

GatherInput ==
    [k \in {"context", "phase"} |-> IF k = "context" THEN Context ELSE "gather"]

\* phase 1, one gather task after the other
CollaborativeGatherLaunch ==
    /\ hpc = "collaborative_gather" /\ idx <= Len(gather_tasks)
    /\ tpc[gather_tasks[idx]] = "idle"
    /\ BeginAttempt(WithInput(tasks, gather_tasks[idx], GatherInput), gather_tasks[idx])
    /\ UNCHANGED <<a2a_vars, call_args, call_result, pattern, hpc, idx, results, pipeline_data, gathered_info,
                   completed_tasks, ready_tasks, handler_outcome, workflow_result>>

CollaborativeGatherCollect ==
    /\ hpc = "collaborative_gather" /\ idx <= Len(gather_tasks)
    /\ tpc[gather_tasks[idx]] = "returned"
    /\ gathered_info' = DictSet(gathered_info, tasks[gather_tasks[idx]].agent_id,
                                tasks[gather_tasks[idx]].result)
    /\ idx' = idx + 1
    /\ UNCHANGED <<a2a_vars, call_args, call_result, pattern, tasks, hpc, results, pipeline_data, completed_tasks,
                   ready_tasks, tpc, attempts, last_sent, handler_outcome,
                   workflow_result>>

\* CollaborativeGatherRaise with the exception kept as the agent's entry and
\* the gathering going on
CollaborativeGatherRaiseTolerated ==
    /\ hpc = "collaborative_gather" /\ idx <= Len(gather_tasks)
    /\ tpc[gather_tasks[idx]] = "raised"
    /\ gathered_info' = DictSet(gathered_info, tasks[gather_tasks[idx]].agent_id,
                                ErrorObject(tasks[gather_tasks[idx]].error))
    /\ idx' = idx + 1
    /\ UNCHANGED <<a2a_vars, call_args, call_result, pattern, tasks, hpc, results,
                   pipeline_data, completed_tasks, ready_tasks, tpc, attempts,
                   last_sent, handler_outcome, workflow_result>>

\* a gather task raised: the exception leaves the handler
CollaborativeGatherRaise ==
    /\ hpc = "collaborative_gather" /\ idx <= Len(gather_tasks)
    /\ tpc[gather_tasks[idx]] = "raised"
    /\ HandlerRaises(tasks[gather_tasks[idx]].error, tasks)
    /\ UNCHANGED <<a2a_vars, call_args, call_result, pattern, tasks, idx, results, pipeline_data, gathered_info,
                   completed_tasks, ready_tasks, tpc, attempts, last_sent>>

\* ProcessInput built before anything was gathered
ProcessInputUngathered(t) ==
    [k \in {"context", "gathered_info", "phase"} |->
        IF k = "context" THEN Context
        ELSE IF k = "gathered_info" THEN EmptyDict ELSE "process"]

ProcessInput(t) ==
    [k \in {"context", "gathered_info", "phase"} |->
        IF k = "context" THEN Context
        ELSE IF k = "gathered_info" THEN gathered_info ELSE "process"]

_synthesize_collaborative_results(gathered, processed) ==
    [summary |-> "Collaborative workflow completed",
     information_sources |-> Cardinality(DOMAIN gathered),
     processing_agents |-> Len(processed),
     combined_insights |-> [gathered |-> gathered, processed |-> processed]]

CollaborativeResults(collaborative_results) ==
    [gathered_info |-> gathered_info,
     collaborative_results |-> collaborative_results,
     synthesized_result |->
         _synthesize_collaborative_results(gathered_info, collaborative_results)]

\* phase 2 begins: the process tasks are given the gathered information and
\* gathered; without process tasks the handler returns
CollaborativeProcess ==
    /\ hpc = "collaborative_gather" /\ idx = Len(gather_tasks) + 1
    /\ IF process_tasks = <<>>
       THEN /\ HandlerReturns(CollaborativeResults(<<>>), tasks)
            /\ UNCHANGED <<tasks, ready_tasks, tpc, attempts, last_sent>>
       ELSE /\ BeginAttempts(WithInputs(tasks, process_tasks, ProcessInput, 1),
                             process_tasks)
            /\ ready_tasks' = process_tasks
            /\ hpc' = "collaborative_process"
            /\ UNCHANGED <<handler_outcome, workflow_result>>
    /\ UNCHANGED <<a2a_vars, call_args, call_result, pattern, idx, results, pipeline_data, gathered_info,
                   completed_tasks>>

CollaborativeCollect ==
    /\ hpc = "collaborative_process" /\ GatherDone
    /\ HandlerReturns(CollaborativeResults(ByAgent(<<>>, TaskResult, 1)), tasks)
    /\ UNCHANGED <<a2a_vars, call_args, call_result, pattern, tasks, idx, results, pipeline_data, gathered_info,
                   completed_tasks, ready_tasks, tpc, attempts, last_sent>>

(***************************************************************************)
(* The workflows submitted.                                                *)
(***************************************************************************)
\* dependency graphs of a hierarchical workflow of n tasks, as the dependency
\* list of task i: no dependency, a chain, a chain against the list order,
\* a fan-out from the first task, a fan-in into the last, a cycle through all
\* tasks, a task depending on itself, and a dependency that is no task of the
\* workflow
DependencyGraphs == {"none", "chain", "reverse", "fan_out", "fan_in", "cycle",
                     "self", "missing"}

Dependencies(graph, i, n) ==
    CASE graph = "none" -> {}
      [] graph = "chain" -> IF i > 1 THEN {TaskId(i - 1)} ELSE {}
      [] graph = "reverse" -> IF i < n THEN {TaskId(i + 1)} ELSE {}
      [] graph = "fan_out" -> IF i > 1 THEN {TaskId(1)} ELSE {}
      [] graph = "fan_in" -> IF i = n THEN {TaskId(j) : j \in 1..(n - 1)} ELSE {}
      [] graph = "cycle" -> IF i > 1 THEN {TaskId(i - 1)} ELSE {TaskId(n)}
      [] graph = "self" -> IF i = n THEN {TaskId(n)} ELSE {}
      [] graph = "missing" -> IF i = 1 THEN {MissingTaskId} ELSE {TaskId(1)}

\* the tasks of a workflow share one retry budget maxr; the fields a pattern
\* reads vary, the others keep their defaults
TaskChoices(pat, graph, maxr, i, n) ==
    {TaskNode(i, agent, Dependencies(graph, i, n), maxr,
              [critical |-> crit, phase |-> phase]) :
        agent \in AgentIds,
        crit \in IF pat = SEQUENTIAL THEN BOOLEAN ELSE {FALSE},
        phase \in IF pat = COLLABORATIVE THEN {"gather", "process", "none"}
                  ELSE {"none"}}

\* the tasks of a collaborative workflow are listed by phase: the handler
\* filters the list by phase, so only the order within a phase matters
PhaseRank(phase) == CASE phase = "gather" -> 1 [] phase = "process" -> 2 [] OTHER -> 3

RECURSIVE TaskLists(_, _, _, _, _)
TaskLists(pat, graph, maxr, i, n) ==
    IF i = 0 THEN {<<>>}
    ELSE {Append(p[1], p[2]) :
            p \in {q \in TaskLists(pat, graph, maxr, i - 1, n)
                           \X TaskChoices(pat, graph, maxr, i, n) :
                      \/ i = 1
                      \/ PhaseRank(q[1][i - 1].metadata.phase)
                            <= PhaseRank(q[2].metadata.phase)}}

Init ==
    /\ pattern \in CoordinationPattern
    /\ NoA2A
    /\ \E n \in 0..MaxTasks :
         \E graph \in IF pattern = HIERARCHICAL THEN DependencyGraphs ELSE {"none"} :
         \E maxr \in 0..MaxRetries :
            tasks \in TaskLists(pattern, graph, maxr, n, n)
    /\ hpc = "idle"
    /\ idx = 0
    /\ results = EmptyDict
    /\ pipeline_data = EmptyBody
    /\ gathered_info = EmptyDict
    /\ completed_tasks = {}
    /\ ready_tasks = <<>>
    /\ tpc = [t \in TaskIdx |-> "idle"]
    /\ attempts = [t \in TaskIdx |-> 0]
    /\ last_sent = [t \in TaskIdx |-> NotSent]
    /\ handler_outcome = NotEnded
    /\ workflow_result = NoResult
    /\ call_args = <<>>
    /\ call_result = PyNone

Next ==
    \/ SequentialStart \/ SequentialLaunch \/ SequentialCollect
    \/ SequentialRaise \/ SequentialReturn
    \/ ParallelStart \/ ParallelCollect
    \/ PipelineStart \/ PipelineLaunch \/ PipelineCollect
    \/ PipelineRaise \/ PipelineReturn
    \/ HierarchicalStart \/ HierarchicalLevel \/ HierarchicalCollect
    \/ HierarchicalReturn
    \/ ConsensusStart \/ ConsensusCollect
    \/ CompetitiveStart \/ CompetitiveCollect
    \/ CollaborativeStart \/ CollaborativeGatherLaunch \/ CollaborativeGatherCollect
    \/ CollaborativeGatherRaise \/ CollaborativeProcess \/ CollaborativeCollect
    \/ \E t \in TaskIdx : AgentSuccess(t)
    \/ \E t \in TaskIdx : AgentFailure(t)
    \/ \E t \in TaskIdx : RetryTask(t)

Spec == Init /\ [][Next]_vars

\* every delegation call comes back, every back-off sleep ends and the event
\* loop runs every coroutine that can go on
MaxLiveTasks == 2

LiveInit == Init /\ N <= MaxLiveTasks

LiveSpec == LiveInit /\ [][Next]_vars /\ WF_vars(Next)

(***************************************************************************)
(* _determine_consensus called on its own, on every dict of at most        *)
(* MaxResponses agent responses.  Two of the responses, a text and a       *)
(* mapping, have the same string form.                                     *)
(***************************************************************************)
MaxResponses == 4

Responses == {PyStr("A"), PyStr("B"), PyStr("{'k': 'A'}"), PyDict([k \in {"k"} |-> "A"])}

\* the dicts of n responses, keyed by agent
RECURSIVE ResponseDicts(_)
ResponseDicts(n) ==
    IF n = 0 THEN {<<>>}
    ELSE {Append(d, [key |-> "agent" \o ToString(n), value |-> r]) :
             d \in ResponseDicts(n - 1), r \in Responses}

ConsensusInit ==
    /\ pattern = CONSENSUS
    /\ NoA2A
    /\ tasks = <<>>
    /\ hpc = "call"
    /\ idx = 0
    /\ results = EmptyDict
    /\ pipeline_data = EmptyBody
    /\ gathered_info = EmptyDict
    /\ completed_tasks = {}
    /\ ready_tasks = <<>>
    /\ tpc = <<>>
    /\ attempts = <<>>
    /\ last_sent = <<>>
    /\ handler_outcome = NotEnded
    /\ workflow_result = NoResult
    /\ \E n \in 0..MaxResponses : call_args \in ResponseDicts(n)
    /\ call_result = PyNone

DetermineConsensusCall ==
    /\ hpc = "call"
    /\ call_result' = _determine_consensus(call_args)
    /\ hpc' = "called"
    /\ UNCHANGED <<a2a_vars, call_args, pattern, tasks, idx, results, pipeline_data,
                   gathered_info, completed_tasks, ready_tasks, tpc, attempts,
                   last_sent, handler_outcome, workflow_result>>

ConsensusNext == DetermineConsensusCall

ConsensusSpec == ConsensusInit /\ [][ConsensusNext]_vars

(***************************************************************************)
(* The state in which no workflow is being executed: the functions called  *)
(* on their own start from it.                                             *)
(***************************************************************************)
NoWorkflow ==
    /\ tasks = <<>>
    /\ idx = 0
    /\ results = EmptyDict
    /\ pipeline_data = EmptyBody
    /\ gathered_info = EmptyDict
    /\ completed_tasks = {}
    /\ ready_tasks = <<>>
    /\ tpc = <<>>
    /\ attempts = <<>>
    /\ last_sent = <<>>
    /\ handler_outcome = NotEnded
    /\ workflow_result = NoResult

(***************************************************************************)
(* _determine_winner called on its own, on every dict of at most           *)
(* MaxCompetitors agent results.  Quality scores are in hundredths,        *)
(* execution times in seconds.                                             *)
(***************************************************************************)
MaxCompetitors == 3

QualityScores == {300, 500, 600, 800}
CompetitorTimes == {0, 5, 12}

RECURSIVE CompetitorDicts(_)
CompetitorDicts(n) ==
    IF n = 0 THEN {<<>>}
    ELSE {Append(d, [key |-> "agent" \o ToString(n),
                     value |-> [result |-> PyStr("result"),
                                execution_time |-> time,
                                quality_score |-> quality]]) :
             d \in CompetitorDicts(n - 1), quality \in QualityScores,
             time \in CompetitorTimes}

WinnerInit ==
    /\ pattern = COMPETITIVE
    /\ NoA2A
    /\ NoWorkflow
    /\ hpc = "winner_call"
    /\ \E n \in 0..MaxCompetitors : call_args \in CompetitorDicts(n)
    /\ call_result = NoWinner

DetermineWinnerCall ==
    /\ hpc = "winner_call"
    /\ call_result' = _determine_winner(call_args)
    /\ hpc' = "winner_called"
    /\ UNCHANGED <<a2a_vars, call_args, pattern, tasks, idx, results, pipeline_data,
                   gathered_info, completed_tasks, ready_tasks, tpc, attempts,
                   last_sent, handler_outcome, workflow_result>>

WinnerNext == DetermineWinnerCall

WinnerSpec == WinnerInit /\ [][WinnerNext]_vars

(***************************************************************************)
(* The A2A protocol (src/a2a/protocol.py): messages, their dictionary      *)
(* form, signing and verification.                                         *)
(***************************************************************************)
\* the members of the MessageType enumeration, each with its string value
MessageTypeValue ==
    [member \in {"MessageType.DISCOVERY_REQUEST", "MessageType.DISCOVERY_RESPONSE",
                 "MessageType.TASK_REQUEST", "MessageType.TASK_RESPONSE",
                 "MessageType.CAPABILITY_QUERY", "MessageType.CAPABILITY_RESPONSE",
                 "MessageType.HEALTH_CHECK", "MessageType.HEALTH_RESPONSE",
                 "MessageType.DELEGATION_REQUEST", "MessageType.DELEGATION_RESPONSE",
                 "MessageType.COORDINATION_MESSAGE"} |->
        CASE member = "MessageType.DISCOVERY_REQUEST" -> "discovery_request"
          [] member = "MessageType.DISCOVERY_RESPONSE" -> "discovery_response"
          [] member = "MessageType.TASK_REQUEST" -> "task_request"
          [] member = "MessageType.TASK_RESPONSE" -> "task_response"
          [] member = "MessageType.CAPABILITY_QUERY" -> "capability_query"
          [] member = "MessageType.CAPABILITY_RESPONSE" -> "capability_response"
          [] member = "MessageType.HEALTH_CHECK" -> "health_check"
          [] member = "MessageType.HEALTH_RESPONSE" -> "health_response"
          [] member = "MessageType.DELEGATION_REQUEST" -> "delegation_request"
          [] member = "MessageType.DELEGATION_RESPONSE" -> "delegation_response"
          [] member = "MessageType.COORDINATION_MESSAGE" -> "coordination_message"]

MessageType == DOMAIN MessageTypeValue

\* MessageType(x): the member with value x, or x itself if it is a member
IsMessageType(x) == x \in MessageType \/ \E member \in MessageType : MessageTypeValue[member] = x

MessageTypeOf(x) ==
    IF x \in MessageType THEN x
    ELSE CHOOSE member \in MessageType : MessageTypeValue[member] = x

\* A2AMessage(...): the dataclass; payload is a dict in insertion order,
\* signature and correlation_id are None or a string
A2AMessage(message_id, message_type, sender_id, recipient_id, timestamp, payload, signature, correlation_id) ==
    [message_id |-> message_id, message_type |-> message_type,
     sender_id |-> sender_id, recipient_id |-> recipient_id,
     timestamp |-> timestamp, payload |-> payload,
     signature |-> signature, correlation_id |-> correlation_id]

\* to_dict kept as asdict gives it, the enumeration member not replaced
to_dictMemberKept(message) == message

\* to_dict: the fields as a dictionary, message_type as its string value
to_dict(message) ==
    [message EXCEPT !.message_type = MessageTypeValue[message.message_type]]

\* the fields of the dataclass, and those of them that have a default
MessageFields ==
    {"message_id", "message_type", "sender_id", "recipient_id", "timestamp",
     "payload", "signature", "correlation_id"}

OptionalFields == {"signature", "correlation_id"}

\* from_dict: the message of a dictionary, or the exception raised: the
\* KeyError of data['message_type'], the ValueError of MessageType, the
\* TypeError of the constructor
from_dict(data) ==
    IF "message_type" \notin DOMAIN data
    THEN [ok |-> FALSE, exception |-> "KeyError", error |-> "'message_type'"]
    ELSE IF ~IsMessageType(data.message_type)
    THEN [ok |-> FALSE, exception |-> "ValueError",
          error |-> "'" \o data.message_type \o "' is not a valid MessageType"]
    ELSE IF DOMAIN data \ MessageFields # {}
    THEN [ok |-> FALSE, exception |-> "TypeError",
          error |-> "__init__() got an unexpected keyword argument"]
    ELSE IF (MessageFields \ OptionalFields) \ DOMAIN data # {}
    THEN [ok |-> FALSE, exception |-> "TypeError",
          error |-> "__init__() missing required positional arguments"]
    ELSE [ok |-> TRUE,
          message |->
              [field \in MessageFields |->
                  IF field = "message_type" THEN MessageTypeOf(data.message_type)
                  ELSE IF field \in DOMAIN data THEN data[field]
                  ELSE PyNone]]

\* the keys payloads have in this model, in the order sort_keys gives them
JsonKeys ==
    <<"agent_profile", "capabilities", "health_check", "message", "modified",
      "priority", "status", "task">>

HasKey(d, key) == \E j \in 1..Len(d) : d[j].key = key
ValueOf(d, key) == d[CHOOSE j \in 1..Len(d) : d[j].key = key].value

\* del d[key]
RECURSIVE DictDel(_, _)
DictDel(d, key) ==
    IF d = <<>> THEN <<>>
    ELSE IF Head(d).key = key THEN Tail(d)
    ELSE <<Head(d)>> \o DictDel(Tail(d), key)

Quoted(text) == "\"" \o text \o "\""

\* JsonItems writing the items in insertion order
RECURSIVE JsonItemsUnsorted(_, _, _)
JsonItemsUnsorted(d, k, first) ==
    IF k > Len(d) THEN ""
    ELSE (IF first THEN "" ELSE ", ")
           \o Quoted(d[k].key) \o ": " \o Quoted(d[k].value)
           \o JsonItemsUnsorted(d, k + 1, FALSE)

\* the items of a dict as json.dumps(sort_keys=True) writes them, from the
\* k-th key on
RECURSIVE JsonItems(_, _, _)
JsonItems(d, k, first) ==
    IF k > Len(JsonKeys) THEN ""
    ELSE IF HasKey(d, JsonKeys[k])
         THEN (IF first THEN "" ELSE ", ")
                \o Quoted(JsonKeys[k]) \o ": " \o Quoted(ValueOf(d, JsonKeys[k]))
                \o JsonItems(d, k + 1, FALSE)
    ELSE JsonItems(d, k + 1, first)

\* json.dumps(sign_data, sort_keys=True)
JsonDumps(sign_data) ==
    "{\"message_id\": " \o Quoted(sign_data.message_id)
      \o ", \"message_type\": " \o Quoted(sign_data.message_type)
      \o ", \"payload\": {" \o JsonItems(sign_data.payload, 1, TRUE) \o "}"
      \o ", \"recipient_id\": " \o Quoted(sign_data.recipient_id)
      \o ", \"sender_id\": " \o Quoted(sign_data.sender_id)
      \o ", \"timestamp\": " \o ToString(sign_data.timestamp) \o "}"

\* hmac.new(key, message, sha256).hexdigest(), as a digest without collisions
HmacSha256Hex(key, message_bytes) == "hmac-sha256(" \o key \o ", " \o message_bytes \o ")"

\* _sign_message with the sender left out of sign_data
_sign_messageNoSender(protocol, message) ==
    LET sign_data == [message_id |-> message.message_id,
                      message_type |-> MessageTypeValue[message.message_type],
                      sender_id |-> "",
                      recipient_id |-> message.recipient_id,
                      timestamp |-> message.timestamp,
                      payload |-> message.payload]
    IN  HmacSha256Hex(protocol.secret_key.body[""], JsonDumps(sign_data))

_sign_message(protocol, message) ==
    LET sign_data == [message_id |-> message.message_id,
                      message_type |-> MessageTypeValue[message.message_type],
                      sender_id |-> message.sender_id,
                      recipient_id |-> message.recipient_id,
                      timestamp |-> message.timestamp,
                      payload |-> message.payload]
    IN  HmacSha256Hex(protocol.secret_key.body[""], JsonDumps(sign_data))

\* verify_message accepting every message
verify_messageSkipped(protocol, message) == TRUE

verify_message(protocol, message) ==
    IF Falsy(message.signature) \/ Falsy(protocol.secret_key) THEN TRUE
    ELSE message.signature = PyStr(_sign_message(protocol, message))

\* create_message with the signing left out
create_messageUnsigned(protocol, message_type, recipient_id, payload, correlation_id, uuid, now) ==
    A2AMessage(uuid, message_type, protocol.agent_id, recipient_id, now, payload,
               PyNone, correlation_id)

create_message(protocol, message_type, recipient_id, payload, correlation_id, uuid, now) ==
    LET message == A2AMessage(uuid, message_type, protocol.agent_id, recipient_id,
                              now, payload, PyNone, correlation_id)
    IN  IF ~Falsy(protocol.secret_key)
        THEN [message EXCEPT !.signature = PyStr(_sign_message(protocol, message))]
        ELSE message

\* str(uuid.uuid4()): an id never drawn before
Uuid4 == "id" \o ToString(uuids + 1)

(***************************************************************************)
(* One agent's protocol object, the messages it creates, what a holder of  *)
(* a message does to it, and the handling of a message that comes in.      *)
(***************************************************************************)
MaxExchanged == 1
MaxHandled == 1

\* the secret_key argument: left out, or given
SecretKeys == {PyNone, PyStr("secret_key")}

\* A2AProtocol.__init__
A2AProtocolInit(secret_key) ==
    /\ ~a2a.constructed
    /\ secret_key_arg' = secret_key
    /\ a2a' = [constructed |-> TRUE,
               agent_id |-> "test_agent",
               secret_key |-> IF Falsy(secret_key) THEN PyStr("default_a2a_key")
                              ELSE secret_key]
    /\ UNCHANGED <<orchestrator_vars, net_vars, uuids, messages, as_created, verified, incoming>>

\* the caller keeps the message create_message returns
CreateMessage(message_type, recipient_id, payload, correlation_id, now) ==
    /\ a2a.constructed
    /\ LET message == create_message(a2a, message_type, recipient_id, payload,
                                     correlation_id, Uuid4, now)
       IN  /\ messages' = Append(messages, message)
           /\ as_created' = Append(as_created, message)
    /\ uuids' = uuids + 1
    /\ UNCHANGED <<orchestrator_vars, net_vars, secret_key_arg, a2a, verified, incoming>>

\* message.payload[key] = value
SetPayloadItem(i, key, value) ==
    /\ messages' = [messages EXCEPT ![i].payload = OrderedSet(@, key, value)]
    /\ verified' = NoVerify /\ incoming' = NoIncoming
    /\ UNCHANGED <<orchestrator_vars, net_vars, secret_key_arg, a2a, uuids, as_created>>

\* del message.payload[key]
DeletePayloadItem(i, key) ==
    /\ HasKey(messages[i].payload, key)
    /\ messages' = [messages EXCEPT ![i].payload = DictDel(@, key)]
    /\ verified' = NoVerify /\ incoming' = NoIncoming
    /\ UNCHANGED <<orchestrator_vars, net_vars, secret_key_arg, a2a, uuids, as_created>>

\* message.signature = signature
SetSignature(i, signature) ==
    /\ messages[i].signature # signature
    /\ messages' = [messages EXCEPT ![i].signature = signature]
    /\ verified' = NoVerify /\ incoming' = NoIncoming
    /\ UNCHANGED <<orchestrator_vars, net_vars, secret_key_arg, a2a, uuids, as_created>>

VerifyMessage(i) ==
    /\ a2a.constructed
    /\ verified' = [message |-> i,
                    expected_signature |->
                        IF Falsy(messages[i].signature) \/ Falsy(a2a.secret_key)
                        THEN PyNone
                        ELSE PyStr(_sign_message(a2a, messages[i])),
                    result |-> verify_message(a2a, messages[i])]
    /\ UNCHANGED <<orchestrator_vars, net_vars, secret_key_arg, a2a, uuids, messages,
                   as_created, incoming>>

\* the handler of a message type, with the type and the payload of its response
handler_map ==
    [member \in {"MessageType.DISCOVERY_REQUEST", "MessageType.CAPABILITY_QUERY",
                 "MessageType.HEALTH_CHECK", "MessageType.DELEGATION_REQUEST",
                 "MessageType.TASK_REQUEST"} |->
        CASE member = "MessageType.DISCOVERY_REQUEST" ->
               [handler |-> "_handle_discovery_request",
                response_type |-> "MessageType.DISCOVERY_RESPONSE",
                payload |-> <<[key |-> "agent_profile", value |-> "test_agent"]>>]
          [] member = "MessageType.CAPABILITY_QUERY" ->
               [handler |-> "_handle_capability_query",
                response_type |-> "MessageType.CAPABILITY_RESPONSE",
                payload |-> <<[key |-> "capabilities", value |-> "basic_communication"]>>]
          [] member = "MessageType.HEALTH_CHECK" ->
               [handler |-> "_handle_health_check",
                response_type |-> "MessageType.HEALTH_RESPONSE",
                payload |-> <<[key |-> "status", value |-> "healthy"]>>]
          [] member = "MessageType.DELEGATION_REQUEST" ->
               [handler |-> "_handle_delegation_request",
                response_type |-> "MessageType.DELEGATION_RESPONSE",
                payload |-> <<[key |-> "status", value |-> "not_implemented"],
                              [key |-> "message", value |-> "Task delegation not implemented in base A2A protocol"]>>]
          [] member = "MessageType.TASK_REQUEST" ->
               [handler |-> "_handle_task_request",
                response_type |-> "MessageType.TASK_RESPONSE",
                payload |-> <<[key |-> "status", value |-> "not_implemented"],
                              [key |-> "message", value |-> "Task processing not implemented in base A2A protocol"]>>]]

NoHandler == "None"

InvalidSignature ==
    [error |-> "invalid_signature", message |-> "Message signature verification failed"]

\* the exceptions "except Exception" catches with only ValueError caught
CaughtValueErrorOnly(exception) == exception = "ValueError"

\* except Exception: every exception from_dict, verify_message and the
\* handlers can raise is one
Caught(exception) == exception \in {"KeyError", "ValueError", "TypeError"}

\* handle_incoming_message: the handler called, what is returned, and the
\* exception that leaves the function, if one does
handle_incoming_message(protocol, message_data, uuid, now) ==
    LET parsed == from_dict(message_data)
        message == parsed.message
    IN  IF ~parsed.ok
        THEN IF Caught(parsed.exception)
             THEN [handler |-> NoHandler, raised |-> "None",
                   result |-> [error |-> "message_processing_failed",
                               details |-> parsed.error]]
             ELSE [handler |-> NoHandler, raised |-> parsed.exception,
                   result |-> PyNone]
        ELSE IF ~verify_message(protocol, message)
        THEN [handler |-> NoHandler, raised |-> "None", result |-> InvalidSignature]
        ELSE IF message.message_type \in DOMAIN handler_map
        THEN LET entry == handler_map[message.message_type]
                 response == create_message(protocol, entry.response_type,
                                            message.sender_id, entry.payload,
                                            message.correlation_id, uuid, now)
             IN  [handler |-> entry.handler, raised |-> "None",
                  result |-> to_dict(response)]
        ELSE [handler |-> NoHandler, raised |-> "None",
              result |-> [error |-> "unsupported_message_type",
                          message_type |-> MessageTypeValue[message.message_type]]]

\* handle_incoming_message on the dictionary form of the i-th message
HandleIncomingMessage(i, now) ==
    /\ a2a.constructed
    /\ uuids - Len(messages) < MaxHandled
    /\ LET returned == handle_incoming_message(a2a, to_dict(messages[i]), Uuid4, now)
       IN  /\ incoming' = [message |-> i, handler |-> returned.handler,
                           result |-> returned.result]
           /\ uuids' = IF returned.handler = NoHandler THEN uuids ELSE uuids + 1
    /\ UNCHANGED <<orchestrator_vars, net_vars, secret_key_arg, a2a, messages, as_created,
                   verified>>

\* the payload of the message the tests create, and what they put into it
TestPayload == <<[key |-> "task", value |-> "test"]>>
PayloadKeys == {"modified"}
PayloadValues == {"data"}

\* what a holder of a message sets its signature to
Signatures(i) ==
    {PyNone, PyStr(""), PyStr("invalid_signature"), as_created[i].signature}

NoCall ==
    /\ pattern = SEQUENTIAL
    /\ NoWorkflow
    /\ call_args = <<>>
    /\ call_result = PyNone

ProtocolInit == NoCall /\ hpc = "a2a" /\ NoA2A

ProtocolNext ==
    \/ \E secret_key \in SecretKeys : A2AProtocolInit(secret_key)
    \/ /\ Len(messages) < MaxExchanged
       /\ \E message_type \in MessageType :
            CreateMessage(message_type, "recipient", TestPayload, PyNone, 1)
    \/ \E i \in 1..Len(messages), key \in PayloadKeys, value \in PayloadValues :
          SetPayloadItem(i, key, value)
    \/ \E i \in 1..Len(messages), key \in PayloadKeys : DeletePayloadItem(i, key)
    \/ \E i \in 1..Len(messages) : \E signature \in Signatures(i) :
          SetSignature(i, signature)
    \/ \E i \in 1..Len(messages) : VerifyMessage(i)
    \/ \E i \in 1..Len(messages) : HandleIncomingMessage(i, 1)

ProtocolSpec == ProtocolInit /\ [][ProtocolNext]_vars

(***************************************************************************)
(* MainAgentA2A.determine_best_agent_a2a.  Confidences are in              *)
(* ten-thousandths.  A query is the set of phrases it is made of; the      *)
(* phrases are the keywords of the two agents.                             *)
(***************************************************************************)
agent_endpoints == {"greeting_agent", "hr_agent"}

\* in the order of the dict
agent_specializations ==
    <<[agent_id |-> "greeting_agent",
       keywords |-> <<"hello", "hi", "hey", "goodbye", "bye", "thank", "help",
                      "who are you", "how are you">>,
       confidence_threshold |-> 8000],
      [agent_id |-> "hr_agent",
       keywords |-> <<"employee", "department", "salary", "payroll", "hierarchy",
                      "team", "staff", "manager", "organization">>,
       confidence_threshold |-> 9000]>>

Phrases ==
    UNION {{spec.keywords[k] : k \in 1..Len(spec.keywords)} :
              spec \in {agent_specializations[a] : a \in 1..Len(agent_specializations)}}

\* keyword in phrase: the keyword itself, and "hi" inside "hierarchy"
InPhrase(keyword, phrase) ==
    \/ keyword = phrase
    \/ keyword = "hi" /\ phrase = "hierarchy"

\* keyword in query_lower
InQuery(keyword, query) == \E phrase \in query : InPhrase(keyword, phrase)

\* sum(1 for keyword in spec["keywords"] if keyword in query_lower)
KeywordMatches(spec, query) ==
    Cardinality({k \in 1..Len(spec.keywords) : InQuery(spec.keywords[k], query)})

\* min(min(matches / 9, 1.0) * 1.2, 1.0) as the doubles give it for 0..9
\* matches, rounded down: 6 matches give 0.7999999999999999 and 3 matches
\* 0.39999999999999997
BoostedNinths == <<0, 1333, 2666, 3999, 5333, 6666, 7999, 9333, 10000, 10000>>

Confidence(spec, query) == BoostedNinths[KeywordMatches(spec, query) + 1]

\* the test of the loop with the threshold left out
SelectedBelowThreshold(confidence, best_confidence, spec) ==
    confidence > best_confidence

\* the test of the loop with the comparison to the best so far left out
SelectedLast(confidence, best_confidence, spec) ==
    confidence >= spec.confidence_threshold

Selected(confidence, best_confidence, spec) ==
    confidence > best_confidence /\ confidence >= spec.confidence_threshold

\* the loop over agent_specializations from its k-th entry on
RECURSIVE BestFrom(_, _, _)
BestFrom(query, k, best) ==
    IF k > Len(agent_specializations) THEN best
    ELSE LET spec == agent_specializations[k]
             confidence == Confidence(spec, query)
         IN  IF Selected(confidence, best.confidence, spec)
             THEN BestFrom(query, k + 1,
                           [agent |-> spec.agent_id, confidence |-> confidence])
             ELSE BestFrom(query, k + 1, best)

NoAgent == "None"

determine_best_agent_a2a(query) ==
    LET best == BestFrom(query, 1, [agent |-> NoAgent, confidence |-> 0])
    IN  IF best.agent = NoAgent \/ best.confidence < 3000
        THEN [agent |-> "greeting_agent", confidence |-> 5000]
        ELSE best

RoutingInit ==
    /\ pattern = SEQUENTIAL
    /\ NoWorkflow
    /\ NoA2A
    /\ hpc = "routing_call"
    /\ call_args \in SUBSET Phrases
    /\ call_result = [agent |-> NoAgent, confidence |-> 0]

DetermineBestAgentCall ==
    /\ hpc = "routing_call"
    /\ call_result' = determine_best_agent_a2a(call_args)
    /\ hpc' = "routing_called"
    /\ UNCHANGED <<a2a_vars, call_args, pattern, tasks, idx, results, pipeline_data,
                   gathered_info, completed_tasks, ready_tasks, tpc, attempts,
                   last_sent, handler_outcome, workflow_result>>

RoutingNext == DetermineBestAgentCall

RoutingSpec == RoutingInit /\ [][RoutingNext]_vars

(***************************************************************************)
(* Signing: one protocol object creates task requests at the times and     *)
(* with the payloads below; a holder of a message changes its payload,     *)
(* puts it back, and has the message verified.                             *)
(***************************************************************************)
MaxSigned == 2

SigningPayloads ==
    {<<[key |-> "task", value |-> "data"]>>,
     <<[key |-> "task", value |-> "data"], [key |-> "modified", value |-> "data"]>>}

SigningKeys == {"task", "modified"}

SigningTimes == {1, 2}

SigningInit == NoCall /\ hpc = "signing" /\ NoA2A

SigningNext ==
    \/ \E secret_key \in SecretKeys : A2AProtocolInit(secret_key)
    \/ /\ Len(messages) < MaxSigned
       /\ \E payload \in SigningPayloads, now \in SigningTimes :
            CreateMessage("MessageType.TASK_REQUEST", "recipient", payload, PyNone, now)
    \/ \E i \in 1..Len(messages), key \in SigningKeys, value \in PayloadValues :
          SetPayloadItem(i, key, value)
    \/ \E i \in 1..Len(messages), key \in SigningKeys : DeletePayloadItem(i, key)
    \/ \E i \in 1..Len(messages) : VerifyMessage(i)

SigningSpec == SigningInit /\ [][SigningNext]_vars

(***************************************************************************)
(* Altering: one protocol object creates a task request; a holder of the   *)
(* message assigns to its attributes and to the items of its payload, and  *)
(* has the message verified.  A message differs from the one created in at *)
(* most MaxAltered attributes.                                             *)
(***************************************************************************)
MaxAltered == 2

\* the attributes a holder assigns to, and what they assign
AlteredValues ==
    [message_id |-> {"id1", "id9"},
     message_type |-> {"MessageType.TASK_REQUEST", "MessageType.DELEGATION_REQUEST"},
     sender_id |-> {"test_agent", "intruder"},
     recipient_id |-> {"recipient", "bystander"},
     timestamp |-> {1, 2},
     correlation_id |-> {PyNone, PyStr("id7")}]

\* a payload as the dict it is: its items, in no order
Items(d) == {d[j] : j \in 1..Len(d)}

\* the attributes in which two messages differ
Altered(message, created) ==
    {field \in DOMAIN AlteredValues : message[field] # created[field]}
      \cup (IF Items(message.payload) # Items(created.payload) THEN {"payload"} ELSE {})

\* message.<field> = value
SetAttribute(i, field, value) ==
    /\ messages[i][field] # value
    /\ LET message == [messages[i] EXCEPT ![field] = value]
       IN  /\ Cardinality(Altered(message, as_created[i])) <= MaxAltered
           /\ messages' = [messages EXCEPT ![i] = message]
    /\ verified' = NoVerify /\ incoming' = NoIncoming
    /\ UNCHANGED <<orchestrator_vars, net_vars, secret_key_arg, a2a, uuids, as_created>>

\* message.payload[key] = value and del message.payload[key]
SetPayload(i, payload) ==
    /\ messages[i].payload # payload
    /\ LET message == [messages[i] EXCEPT !.payload = payload]
       IN  /\ Cardinality(Altered(message, as_created[i])) <= MaxAltered
           /\ messages' = [messages EXCEPT ![i] = message]
    /\ verified' = NoVerify /\ incoming' = NoIncoming
    /\ UNCHANGED <<orchestrator_vars, net_vars, secret_key_arg, a2a, uuids, as_created>>

AlteringInit == NoCall /\ hpc = "altering" /\ NoA2A

AlteringNext ==
    \/ \E secret_key \in SecretKeys : A2AProtocolInit(secret_key)
    \/ /\ messages = <<>>
       /\ \E correlation_id \in AlteredValues.correlation_id :
            CreateMessage("MessageType.TASK_REQUEST", "recipient", TestPayload,
                          correlation_id, 1)
    \/ \E i \in 1..Len(messages), field \in DOMAIN AlteredValues :
          \E value \in AlteredValues[field] : SetAttribute(i, field, value)
    \/ \E i \in 1..Len(messages), key \in SigningKeys, value \in PayloadValues :
          SetPayload(i, OrderedSet(messages[i].payload, key, value))
    \/ \E i \in 1..Len(messages), key \in SigningKeys :
          /\ HasKey(messages[i].payload, key)
          /\ SetPayload(i, DictDel(messages[i].payload, key))
    \/ \E i \in 1..Len(messages) : VerifyMessage(i)

AlteringSpec == AlteringInit /\ [][AlteringNext]_vars

(***************************************************************************)
(* MainAgentA2A.process_query_a2a: routing, the health check and the       *)
(* delegation over A2A, the fallbacks over HTTP.  Every requests.post is   *)
(* one step; what the network and the other agent make of it is chosen     *)
(* with the step.  A JSON object received is a record: "error" in d is     *)
(* "error" \in DOMAIN d.                                                   *)
(***************************************************************************)
MainAgentProtocol ==
    [constructed |-> TRUE, agent_id |-> "main_agent_coordinator",
     secret_key |-> PyStr("rag_a2a_mcp_secret")]

\* the registry of MainAgentA2A
AgentEndpoint ==
    [agent_id \in agent_endpoints |->
        IF agent_id = "greeting_agent" THEN "http://localhost:8003"
        ELSE "http://localhost:8002"]

\* the queries put to the main agent, with the keywords found in them
QueryPhrases ==
    [query \in {"xyz random unclear query", "hello hi hey goodbye bye thank help",
                "employee department salary payroll hierarchy team staff manager organization"} |->
        CASE query = "xyz random unclear query" -> {}
          [] query = "hello hi hey goodbye bye thank help" ->
               {"hello", "hi", "hey", "goodbye", "bye", "thank", "help"}
          [] OTHER -> {"employee", "department", "salary", "payroll", "hierarchy",
                       "team", "staff", "manager", "organization"}]

Queries == DOMAIN QueryPhrases

HasError(d) == "error" \in DOMAIN d

\* what becomes of a post: a 200 with the answer, with an error object, with
\* an empty object or with JSON that is no object; another status; no connection;
\* no answer in time
PostOutcomes ==
    {"200", "200_error", "200_empty", "200_no_object", "500", "ConnectionError",
     "Timeout"}

\* the recipient's error object for a message it does not accept
RecipientError == InvalidSignature

EmptyObject == [key \in {} |-> ""]

\* a JSON value that is no object, here a list: it has no get
NoObject == [no_object |-> <<"busy">>]

\* the endpoint send_message posts to
recipient_endpoint(recipient_id) ==
    IF recipient_id \in DOMAIN a2a_known_agents THEN a2a_known_agents[recipient_id]
    ELSE "http://localhost:800" \o ToString(Cardinality(DOMAIN a2a_known_agents) + 2)

\* what send_message returns for a post with this outcome; answer is the JSON
\* of a 200.  A body that is no object is returned as it is.
send_message_result(message, outcome, answer) ==
    CASE outcome = "200" -> answer
      [] outcome = "200_error" -> RecipientError
      [] outcome = "200_empty" -> EmptyObject
      [] outcome = "200_no_object" -> NoObject
      [] outcome = "500" -> [error |-> "HTTP 500", details |-> "Internal Server Error"]
      [] outcome = "ConnectionError" ->
           [error |-> "connection_refused",
            endpoint |-> recipient_endpoint(message.recipient_id)]
      [] OTHER -> [error |-> "send_failed", details |-> "Read timed out."]

\* result or {"error": "no_response"}
OrNoResponse(result) ==
    IF result = EmptyObject THEN [error |-> "no_response"] ELSE result

\* the request requests.post makes
Post(endpoint, path, json) == [url |-> endpoint \o path, json |-> json]

IsObject(d) == "no_object" \notin DOMAIN d

\* the except clause of delegate_with_a2a
DelegationFailed(details) ==
    [error |-> "a2a_delegation_failed", details |-> details, fallback_available |-> TRUE]

NoQuery == [best_agent |-> NoAgent]

MainAgentInit ==
    /\ pattern = SEQUENTIAL
    /\ NoWorkflow
    /\ NoA2A
    /\ hpc = "main_agent"
    /\ call_args = ""
    /\ call_result = NoQuery

\* MainAgentA2A.__init__, and what a discovery may have put into known_agents
MainAgentA2AInit ==
    /\ hpc = "main_agent"
    /\ ~a2a.constructed
    /\ a2a' = MainAgentProtocol
    /\ secret_key_arg' = MainAgentProtocol.secret_key
    /\ \E discovered \in SUBSET agent_endpoints :
          a2a_known_agents' = [agent_id \in discovered |-> AgentEndpoint[agent_id]]
    /\ UNCHANGED <<orchestrator_vars, uuids, messages, as_created, verified, incoming,
                   posts, pending_requests, clock, cleanup,
                   delegation>>

\* process_query_a2a up to the call of delegate_with_a2a
ProcessQueryCall(query) ==
    /\ hpc = "main_agent"
    /\ a2a.constructed
    /\ call_args' = query
    /\ LET best == determine_best_agent_a2a(QueryPhrases[query])
       IN  call_result' = [best_agent |-> best.agent, confidence |-> best.confidence]
    /\ hpc' = "health_check"
    /\ UNCHANGED <<a2a_vars, pattern, tasks, idx, results, pipeline_data,
                   gathered_info, completed_tasks, ready_tasks, tpc, attempts,
                   last_sent, handler_outcome, workflow_result>>

\* what delegate_with_a2a returns when the health check came back with an error
DelegateAfterHealth(agent_id, health_result) ==
    [error |-> "Agent " \o agent_id \o " health check failed",
     details |-> health_result.error]

\* the health check taken as passed whatever came back
HealthyAlways(health_result) == TRUE

\* not ("error" in health_result)
Healthy(health_result) == ~HasError(health_result)

\* delegate_with_a2a: health_check_agent
HealthCheck(outcome, now) ==
    /\ hpc = "health_check"
    /\ LET agent_id == call_result.best_agent
           health_message ==
               create_message(a2a, "MessageType.HEALTH_CHECK", agent_id,
                              <<[key |-> "health_check", value |-> "true"]>>,
                              PyNone, Uuid4, now)
           answer == [message_type |-> "health_response",
                      sender_id |-> agent_id,
                      payload |-> [status |-> "healthy"]]
           health_result ==
               OrNoResponse(send_message_result(health_message, outcome, answer))
       IN  /\ posts' = Append(posts, Post(recipient_endpoint(agent_id), "/a2a",
                                          to_dict(health_message)))
           /\ IF Healthy(health_result)
              THEN /\ call_result' = [health_result |-> health_result] @@ call_result
                   /\ hpc' = "delegate"
              ELSE /\ call_result' =
                        [health_result |-> health_result,
                         delegated |-> DelegateAfterHealth(agent_id, health_result),
                         result |-> DelegateAfterHealth(agent_id, health_result)]
                        @@ call_result
                   /\ hpc' = "delegated"
    /\ uuids' = uuids + 1
    /\ UNCHANGED <<pattern, tasks, idx, results, pipeline_data, gathered_info,
                   completed_tasks, ready_tasks, tpc, attempts, last_sent,
                   handler_outcome, workflow_result, call_args, secret_key_arg, a2a,
                   messages, as_created, verified, incoming, pending_requests,
                   a2a_known_agents, clock,
                   cleanup, delegation>>

\* what delegate_with_a2a returns for the result of delegate_task; a list
\* has no get, and the except clause answers
DelegateAfterTask(agent_id, delegation_result) ==
    IF ~IsObject(delegation_result)
    THEN DelegationFailed("'list' object has no attribute 'get'")
    ELSE IF ~HasError(delegation_result)
    THEN [status |-> "success",
          result |-> delegation_result.payload.result,
          agent |-> agent_id,
          protocol |-> "a2a",
          delegation_id |-> delegation_result.correlation_id]
    ELSE delegation_result

\* delegate_with_a2a: the message made for its timestamp, then delegate_task,
\* which draws the correlation id, sends the request and forgets the id
DelegateTask(outcome, now) ==
    /\ hpc = "delegate"
    /\ LET agent_id == call_result.best_agent
           correlation_id == "id" \o ToString(uuids + 2)
           delegation_message ==
               create_message(a2a, "MessageType.DELEGATION_REQUEST", agent_id,
                              <<[key |-> "task", value |-> call_args],
                                [key |-> "priority", value |-> "normal"]>>,
                              PyStr(correlation_id),
                              "id" \o ToString(uuids + 3), now)
           answer == [message_type |-> "delegation_response",
                      sender_id |-> agent_id,
                      payload |-> [status |-> "success", result |-> "answer"],
                      correlation_id |-> correlation_id]
           delegation_result ==
               OrNoResponse(send_message_result(delegation_message, outcome, answer))
       IN  /\ posts' = Append(posts, Post(recipient_endpoint(agent_id), "/a2a",
                                          to_dict(delegation_message)))
           /\ pending_requests' = Forget(pending_requests, correlation_id)
           /\ call_result' =
                  [delegation_result |-> delegation_result,
                   delegated |-> DelegateAfterTask(agent_id, delegation_result),
                   result |-> DelegateAfterTask(agent_id, delegation_result)]
                  @@ call_result
    /\ uuids' = uuids + 3
    /\ hpc' = "delegated"
    /\ UNCHANGED <<pattern, tasks, idx, results, pipeline_data, gathered_info,
                   completed_tasks, ready_tasks, tpc, attempts, last_sent,
                   handler_outcome, workflow_result, call_args, secret_key_arg, a2a,
                   messages, as_created, verified, incoming, a2a_known_agents, clock,
                   cleanup, delegation>>

\* what a post to /task comes back with
HttpOutcomes == {"200", "500", "ConnectionError", "Timeout"}

\* fallback_to_http, for an agent of the registry
fallback_to_http(agent_id, outcome) ==
    CASE outcome = "200" ->
           [status |-> "success", result |-> "answer", agent |-> agent_id,
            protocol |-> "http_fallback"]
      [] outcome = "500" -> [error |-> "HTTP fallback failed: 500"]
      [] outcome = "ConnectionError" -> [error |-> "HTTP fallback failed: Connection refused"]
      [] OTHER -> [error |-> "HTTP fallback failed: Read timed out."]

\* if "error" in result and result.get("fallback_available")
WantsHttpFallback(result) ==
    /\ HasError(result)
    /\ "fallback_available" \in DOMAIN result
    /\ result.fallback_available

\* process_query_a2a: the same agent over HTTP
HttpFallback(outcome) ==
    /\ hpc = "delegated"
    /\ WantsHttpFallback(call_result.result)
    /\ posts' = Append(posts, Post(AgentEndpoint[call_result.best_agent], "/task",
                                   [input |-> call_args]))
    /\ call_result' = [call_result EXCEPT
                          !.result = fallback_to_http(call_result.best_agent, outcome)]
    /\ hpc' = "primary_done"
    /\ UNCHANGED <<pattern, tasks, idx, results, pipeline_data, gathered_info,
                   completed_tasks, ready_tasks, tpc, attempts, last_sent,
                   handler_outcome, workflow_result, call_args, secret_key_arg, a2a,
                   uuids, messages, as_created, verified, incoming, pending_requests,
                   a2a_known_agents, clock,
                   cleanup, delegation>>

\* the primary agent has been tried
PrimaryDone ==
    \/ hpc = "primary_done"
    \/ hpc = "delegated" /\ ~WantsHttpFallback(call_result.result)

\* if "error" in result and best_agent != "greeting_agent"
WantsGreetingFallback ==
    HasError(call_result.result) /\ call_result.best_agent # "greeting_agent"

\* process_query_a2a: the greeting agent over HTTP; its answer is returned
\* when it has no error
GreetingFallback(outcome) ==
    /\ PrimaryDone
    /\ WantsGreetingFallback
    /\ posts' = Append(posts, Post(AgentEndpoint["greeting_agent"], "/task",
                                   [input |-> call_args]))
    /\ LET fallback_result == fallback_to_http("greeting_agent", outcome)
       IN  IF ~HasError(fallback_result)
           THEN /\ call_result' =
                      [response |-> [text |-> "Primary agent unavailable, but I can help!",
                                     result |-> fallback_result.result]]
                      @@ call_result
                /\ hpc' = "responded"
           ELSE /\ call_result' = call_result
                /\ hpc' = "greeting_done"
    /\ UNCHANGED <<pattern, tasks, idx, results, pipeline_data, gathered_info,
                   completed_tasks, ready_tasks, tpc, attempts, last_sent,
                   handler_outcome, workflow_result, call_args, secret_key_arg, a2a,
                   uuids, messages, as_created, verified, incoming, pending_requests,
                   a2a_known_agents, clock,
                   cleanup, delegation>>

\* process_query_a2a: the answer
ProcessQueryReturn ==
    /\ \/ hpc = "greeting_done"
       \/ PrimaryDone /\ ~WantsGreetingFallback
    /\ LET result == call_result.result
       IN  call_result' =
               [response |->
                    IF HasError(result)
                    THEN [text |-> "I'm having trouble with the agent network right now.",
                          error |-> result.error]
                    ELSE [text |-> result.result, agent |-> result.agent,
                          protocol |-> IF result.protocol = "a2a" THEN "A2A" ELSE "HTTP"]]
               @@ call_result
    /\ hpc' = "responded"
    /\ UNCHANGED <<a2a_vars, call_args, pattern, tasks, idx, results, pipeline_data,
                   gathered_info, completed_tasks, ready_tasks, tpc, attempts,
                   last_sent, handler_outcome, workflow_result>>

MainAgentNext ==
    \/ MainAgentA2AInit
    \/ \E query \in Queries : ProcessQueryCall(query)
    \/ \E outcome \in PostOutcomes : HealthCheck(outcome, 1)
    \/ \E outcome \in PostOutcomes : DelegateTask(outcome, 1)
    \/ \E outcome \in HttpOutcomes : HttpFallback(outcome)
    \/ \E outcome \in HttpOutcomes : GreetingFallback(outcome)
    \/ ProcessQueryReturn

MainAgentSpec == MainAgentInit /\ [][MainAgentNext]_vars

(***************************************************************************)
(* pending_requests under the two threads of a serving main agent: the     *)
(* thread that calls delegate_task, and the cleanup thread serve starts,   *)
(* which calls cleanup_expired_requests after every sleep.  No lock guards *)
(* the dict, so a step is what one thread does to it without the other     *)
(* running in between: an insert, an "in" test, a del, a next() of the     *)
(* iterator.  The iterator of a dict remembers the size the dict had when  *)
(* the iteration began and raises RuntimeError from next() when the size   *)
(* differs; del of an absent key raises KeyError.  An exception ends       *)
(* the cleanup thread and leaves delegate_task in place of its return.     *)
(***************************************************************************)
MaxDelegations == 2
MaxClock == 3

\* self.request_timeout, the unit of clock
RequestTimeout == 1

PendingInit ==
    /\ pattern = SEQUENTIAL
    /\ NoWorkflow
    /\ hpc = "serve"
    /\ call_args = ""
    /\ call_result = NoQuery
    /\ secret_key_arg = MainAgentProtocol.secret_key
    /\ a2a = MainAgentProtocol
    /\ uuids = 0
    /\ messages = <<>>
    /\ as_created = <<>>
    /\ verified = NoVerify
    /\ incoming = NoIncoming
    /\ posts = <<>>
    /\ pending_requests = NoRequests
    /\ a2a_known_agents = AgentEndpoint
    /\ clock = 0
    /\ cleanup = NoCleanup
    /\ delegation = NoDelegation

pending_unchanged ==
    <<orchestrator_vars, secret_key_arg, a2a, messages, as_created, verified,
      incoming, a2a_known_agents>>

\* serve: cleanup_worker.start()
ServeStart ==
    /\ cleanup.pc = "not_started"
    /\ cleanup' = [pc |-> "sleeping"]
    /\ UNCHANGED <<pending_unchanged, uuids, posts, pending_requests, clock, delegation>>

\* time passes
Tick ==
    /\ clock < MaxClock
    /\ clock' = clock + 1
    /\ UNCHANGED <<pending_unchanged, uuids, posts, pending_requests, cleanup,
                   delegation>>

\* delegate_task up to the post of send_message: the correlation id drawn,
\* the message made, the id put into pending_requests, the request made
DelegatePost(recipient_id, task) ==
    /\ delegation.pc \in {"idle", "returned", "KeyError"}
    /\ uuids < 2 * MaxDelegations
    /\ LET correlation_id == "id" \o ToString(uuids + 1)
           delegation_message ==
               create_message(a2a, "MessageType.DELEGATION_REQUEST", recipient_id,
                              <<[key |-> "task", value |-> task],
                                [key |-> "priority", value |-> "normal"]>>,
                              PyStr(correlation_id),
                              "id" \o ToString(uuids + 2), clock)
       IN  /\ pending_requests' =
                  [k \in DOMAIN pending_requests \cup {correlation_id} |->
                      IF k = correlation_id THEN clock ELSE pending_requests[k]]
           /\ posts' = Append(posts, Post(recipient_endpoint(recipient_id), "/a2a",
                                          to_dict(delegation_message)))
           /\ delegation' = [pc |-> "posted", correlation_id |-> correlation_id,
                             drawn |-> uuids + 1, message |-> delegation_message]
    /\ uuids' = uuids + 2
    /\ UNCHANGED <<pending_unchanged, clock, cleanup>>

\* requests.post comes back and send_message returns
DelegateAnswered(outcome) ==
    /\ delegation.pc = "posted"
    /\ LET answer == [message_type |-> "delegation_response",
                      sender_id |-> delegation.message.recipient_id,
                      payload |-> [status |-> "success", result |-> "answer"],
                      correlation_id |-> delegation.correlation_id]
       IN  delegation' =
               [pc |-> "answered", correlation_id |-> delegation.correlation_id,
                drawn |-> delegation.drawn,
                result |-> send_message_result(delegation.message, outcome, answer)]
    /\ UNCHANGED <<pending_unchanged, uuids, posts, pending_requests, clock, cleanup>>

\* if correlation_id in self.pending_requests; when it is not, the return
DelegateTest ==
    /\ delegation.pc = "answered"
    /\ delegation' =
           IF delegation.correlation_id \in DOMAIN pending_requests
           THEN [delegation EXCEPT !.pc = "found"]
           ELSE [delegation EXCEPT !.pc = "returned",
                                   !.result = OrNoResponse(delegation.result)]
    /\ UNCHANGED <<pending_unchanged, uuids, posts, pending_requests, clock, cleanup>>

\* del self.pending_requests[correlation_id], and the return
DelegateDel ==
    /\ delegation.pc = "found"
    /\ IF delegation.correlation_id \in DOMAIN pending_requests
       THEN /\ pending_requests' = Forget(pending_requests, delegation.correlation_id)
            /\ delegation' = [delegation EXCEPT !.pc = "returned",
                                                !.result = OrNoResponse(delegation.result)]
       ELSE /\ delegation' = [pc |-> "KeyError",
                              correlation_id |-> delegation.correlation_id,
                              drawn |-> delegation.drawn]
            /\ UNCHANGED pending_requests
    /\ UNCHANGED <<pending_unchanged, uuids, posts, clock, cleanup>>

\* cleanup_thread wakes: cleanup_expired_requests reads the time and begins
\* to iterate over pending_requests.items()
CleanupBegin ==
    /\ cleanup.pc = "sleeping"
    /\ cleanup' = [pc |-> "iterating", current_time |-> clock,
                   used |-> Cardinality(DOMAIN pending_requests), last |-> 0,
                   expired_keys |-> <<>>]
    /\ UNCHANGED <<pending_unchanged, uuids, posts, pending_requests, clock,
                   delegation>>

\* the number a correlation id was drawn as: the dict keeps insertion order
DrawnAs(correlation_id) ==
    CHOOSE n \in 1..(2 * MaxDelegations) : "id" \o ToString(n) = correlation_id

\* the entries the iterator has not passed
Ahead(last) == {k \in DOMAIN pending_requests : DrawnAs(k) > last}

\* one next() of the iterator, and the test of the comprehension on its item
CleanupIterate ==
    /\ cleanup.pc = "iterating"
    /\ IF Cardinality(DOMAIN pending_requests) # cleanup.used
       THEN cleanup' = [pc |-> "RuntimeError"]
       ELSE IF Ahead(cleanup.last) = {}
       THEN cleanup' = [pc |-> "deleting", expired_keys |-> cleanup.expired_keys]
       ELSE LET corr_id ==
                    CHOOSE k \in Ahead(cleanup.last) :
                        \A other \in Ahead(cleanup.last) : DrawnAs(k) <= DrawnAs(other)
                timestamp == pending_requests[corr_id]
            IN  cleanup' =
                    [cleanup EXCEPT
                        !.last = DrawnAs(corr_id),
                        !.expired_keys =
                            IF cleanup.current_time - timestamp > RequestTimeout
                            THEN Append(@, corr_id) ELSE @]
    /\ UNCHANGED <<pending_unchanged, uuids, posts, pending_requests, clock,
                   delegation>>

\* for key in expired_keys: del self.pending_requests[key]; then the sleep
CleanupDel ==
    /\ cleanup.pc = "deleting"
    /\ IF cleanup.expired_keys = <<>>
       THEN /\ cleanup' = [pc |-> "sleeping"]
            /\ UNCHANGED pending_requests
       ELSE LET key == Head(cleanup.expired_keys)
            IN  IF key \in DOMAIN pending_requests
                THEN /\ pending_requests' = Forget(pending_requests, key)
                     /\ cleanup' = [cleanup EXCEPT !.expired_keys = Tail(@)]
                ELSE /\ cleanup' = [pc |-> "KeyError"]
                     /\ UNCHANGED pending_requests
    /\ UNCHANGED <<pending_unchanged, uuids, posts, clock, delegation>>

PendingNext ==
    \/ ServeStart
    \/ Tick
    \/ \E task \in Queries : DelegatePost("hr_agent", task)
    \/ \E outcome \in PostOutcomes : DelegateAnswered(outcome)
    \/ DelegateTest
    \/ DelegateDel
    \/ CleanupBegin
    \/ CleanupIterate
    \/ CleanupDel

PendingSpec == PendingInit /\ [][PendingNext]_vars

(***************************************************************************)
(* _execute_single_task on what _send_delegation_message can return: the   *)
(* JSON the agent answered, or the error object made of an exception of    *)
(* the post (no connection, no answer in time).  The tasks are those of a  *)
(* PARALLEL workflow.                                                      *)
(***************************************************************************)
MaxAttemptTasks == 2

\* what comes back from _send_delegation_message, by what happened
Replies ==
    [success |->
        [message_type |-> "delegation_response",
         payload |-> [status |-> "success", result |-> PyStr("text")]],
     agent_error |->
        [message_type |-> "delegation_response",
         payload |-> [status |-> "error", error |-> "Agent failed"]],
     not_implemented |->
        [message_type |-> "delegation_response",
         payload |-> [status |-> "not_implemented",
                      message |-> "Task delegation not implemented in base A2A protocol"]],
     other_type |->
        [message_type |-> "task_response",
         payload |-> [status |-> "success", result |-> PyStr("text")]],
     rejected |-> InvalidSignature,
     timeout |-> [status |-> "error", error |-> ""],
     connection_error |-> [status |-> "error", error |-> "Cannot connect to host"],
     no_object |-> NoObject]

\* response.get("payload", {})
PayloadOf(response) == IF "payload" \in DOMAIN response THEN response.payload ELSE EmptyObject

\* d.get(key) taken as a truth value and compared with a string
GetIs(d, key, value) == key \in DOMAIN d /\ d[key] = value

\* the calls of get on something that has none raise AttributeError
RaisesAttributeError(response) == ~IsObject(response) \/ ~IsObject(PayloadOf(response))

\* IsSuccessReply looking at the payload's status only
IsSuccessReplyAnyType(response) ==
    /\ ~RaisesAttributeError(response)
    /\ GetIs(PayloadOf(response), "status", "success")

\* the test of a valid delegation response
IsSuccessReply(response) ==
    /\ ~RaisesAttributeError(response)
    /\ GetIs(response, "message_type", "delegation_response")
    /\ GetIs(PayloadOf(response), "status", "success")

\* response.get("payload", {}).get("result")
ReplyResult(response) == DictGet(PayloadOf(response), "result")

\* the text of the exception raised for a reply that is no success
ReplyError(response) ==
    IF RaisesAttributeError(response) THEN "'list' object has no attribute 'get'"
    ELSE IF "error" \in DOMAIN PayloadOf(response) /\ PayloadOf(response).error # ""
    THEN PayloadOf(response).error
    ELSE IF "error" \in DOMAIN response THEN response.error
    ELSE "Task execution failed"

AttemptInit == Init /\ pattern = PARALLEL /\ N <= MaxAttemptTasks

\* the delegation call of task t returns
DelegationReply(t, kind) ==
    /\ tpc[t] = "running"
    /\ call_result' = [task |-> t, kind |-> kind]
    /\ IF IsSuccessReply(Replies[kind])
       THEN CompleteAttempt(t, ReplyResult(Replies[kind]))
       ELSE HandleFailure(t, ReplyError(Replies[kind]))
    /\ UNCHANGED <<a2a_vars, call_args, pattern, hpc, idx, results, pipeline_data,
                   gathered_info, completed_tasks, ready_tasks, attempts, last_sent,
                   handler_outcome, workflow_result>>

AttemptNext ==
    \/ ParallelStart
    \/ \E t \in TaskIdx, kind \in DOMAIN Replies : DelegationReply(t, kind)
    \/ \E t \in TaskIdx : RetryTask(t)
    \/ ParallelCollect

AttemptSpec == AttemptInit /\ [][AttemptNext]_vars

(***************************************************************************)
(* The main agent's /a2a endpoint (handle_a2a_message), on delegation      *)
(* requests and health checks signed by a peer that holds the shared       *)
(* secret, as they were signed and with the payload altered afterwards.    *)
(***************************************************************************)
Peer ==
    [constructed |-> TRUE, agent_id |-> "hr_agent",
     secret_key |-> MainAgentProtocol.secret_key]

\* payload["task"] of the requests: a query, or the empty string
EndpointTasks == Queries \cup {""}

TaskPayload(task) == <<[key |-> "task", value |-> task]>>

\* the dictionaries posted to /a2a
EndpointDicts ==
    UNION {LET data == to_dict(create_message(Peer, "MessageType.DELEGATION_REQUEST",
                                              MainAgentProtocol.agent_id,
                                              TaskPayload(task), PyStr("corr-1"),
                                              "peer1", 1))
           IN  {data} \cup {[data EXCEPT !.payload = TaskPayload(altered)] :
                               altered \in EndpointTasks \ {task}} :
           task \in EndpointTasks}
    \cup (LET data == to_dict(create_message(Peer, "MessageType.HEALTH_CHECK",
                                             MainAgentProtocol.agent_id,
                                             <<[key |-> "health_check", value |-> "true"]>>,
                                             PyNone, "peer1", 1))
          IN  {data, [data EXCEPT !.payload = TaskPayload("")]})

\* message_data.get("payload", {}).get("task", "")
TaskOf(message_data) ==
    IF "payload" \in DOMAIN message_data /\ HasKey(message_data.payload, "task")
    THEN ValueOf(message_data.payload, "task")
    ELSE ""

\* the test that sends a message to process_query_a2a
IsDelegation(message_data) ==
    /\ "message_type" \in DOMAIN message_data
    /\ message_data.message_type = MessageTypeValue["MessageType.DELEGATION_REQUEST"]
    /\ TaskOf(message_data) # ""

EndpointInit ==
    /\ pattern = SEQUENTIAL
    /\ NoWorkflow
    /\ secret_key_arg = MainAgentProtocol.secret_key
    /\ a2a = MainAgentProtocol
    /\ uuids = 0
    /\ messages = <<>>
    /\ as_created = <<>>
    /\ verified = NoVerify
    /\ incoming = NoIncoming
    /\ posts = <<>>
    /\ pending_requests = NoRequests
    /\ \E discovered \in {{}, agent_endpoints} :
          a2a_known_agents = [agent_id \in discovered |-> AgentEndpoint[agent_id]]
    /\ clock = 0
    /\ cleanup = NoCleanup
    /\ delegation = NoDelegation
    /\ hpc = "a2a_endpoint"
    /\ call_args = ""
    /\ call_result = NoQuery

\* handle_a2a_message up to the call of process_query_a2a, or through
\* handle_incoming_message to the response
HandleA2AMessage(message_data, now) ==
    /\ hpc = "a2a_endpoint"
    /\ IF IsDelegation(message_data)
       THEN LET task == TaskOf(message_data)
                best == determine_best_agent_a2a(QueryPhrases[task])
            IN  /\ incoming' = [message |-> message_data,
                                handler |-> "process_query_a2a",
                                result |-> PyNone]
                /\ call_args' = task
                /\ call_result' = [best_agent |-> best.agent,
                                   confidence |-> best.confidence]
                /\ hpc' = "health_check"
                /\ uuids' = uuids
       ELSE LET returned == handle_incoming_message(a2a, message_data, Uuid4, now)
            IN  /\ incoming' = [message |-> message_data,
                                handler |-> returned.handler,
                                result |-> returned.result]
                /\ uuids' = IF returned.handler = NoHandler THEN uuids ELSE uuids + 1
                /\ hpc' = "a2a_answered"
                /\ UNCHANGED <<call_args, call_result>>
    /\ UNCHANGED <<pattern, tasks, idx, results, pipeline_data, gathered_info,
                   completed_tasks, ready_tasks, tpc, attempts, last_sent,
                   handler_outcome, workflow_result, secret_key_arg, a2a, messages,
                   as_created, verified, net_vars>>

\* handle_a2a_message after process_query_a2a: the DELEGATION_RESPONSE (its
\* id, timestamp and signature are left out)
A2AResponse ==
    /\ hpc = "responded"
    /\ "handler" \in DOMAIN incoming
    /\ incoming' = [incoming EXCEPT
                       !.result =
                           [message_type |-> "delegation_response",
                            sender_id |-> a2a.agent_id,
                            recipient_id |-> incoming.message.sender_id,
                            correlation_id |-> incoming.message.correlation_id,
                            payload |-> [status |-> "success",
                                         result |-> call_result.response,
                                         processed_by |-> a2a.agent_id,
                                         protocol |-> "a2a"]]]
    /\ uuids' = uuids + 1
    /\ hpc' = "a2a_answered"
    /\ UNCHANGED <<pattern, tasks, idx, results, pipeline_data, gathered_info,
                   completed_tasks, ready_tasks, tpc, attempts, last_sent,
                   handler_outcome, workflow_result, call_args, call_result,
                   secret_key_arg, a2a, messages, as_created,
                   verified, net_vars>>

EndpointNext ==
    \/ \E message_data \in EndpointDicts : HandleA2AMessage(message_data, 2)
    \/ \E outcome \in PostOutcomes : HealthCheck(outcome, 2)
    \/ \E outcome \in PostOutcomes : DelegateTask(outcome, 2)
    \/ \E outcome \in HttpOutcomes : HttpFallback(outcome)
    \/ \E outcome \in HttpOutcomes : GreetingFallback(outcome)
    \/ ProcessQueryReturn
    \/ A2AResponse

EndpointSpec == EndpointInit /\ [][EndpointNext]_vars

(***************************************************************************)
(* handle_incoming_message called on its own, on the dictionaries of       *)
(* signed messages of every type and on what is left of them when a field  *)
(* is missing, the type is no type, or a field is added.                   *)
(***************************************************************************)
Sender ==
    [constructed |-> TRUE, agent_id |-> "test_sender", secret_key |-> PyStr("secret_key")]

Receiver ==
    [constructed |-> TRUE, agent_id |-> "test_agent", secret_key |-> PyStr("secret_key")]

Without(data, field) == [f \in DOMAIN data \ {field} |-> data[f]]

IncomingDicts ==
    UNION {LET data == to_dict(create_message(Sender, message_type, "test_agent",
                                              TestPayload, PyStr("corr-1"), "id1", 1))
           IN  {data,
                [data EXCEPT !.message_type = "unknown_type"],
                [priority |-> "high"] @@ data}
               \cup {Without(data, field) : field \in MessageFields} :
           message_type \in MessageType}

IncomingInit ==
    /\ pattern = SEQUENTIAL
    /\ NoWorkflow
    /\ secret_key_arg = Receiver.secret_key
    /\ a2a = Receiver
    /\ uuids = 1
    /\ messages = <<>>
    /\ as_created = <<>>
    /\ verified = NoVerify
    /\ incoming = NoIncoming
    /\ posts = <<>>
    /\ pending_requests = NoRequests
    /\ a2a_known_agents = <<>>
    /\ clock = 0
    /\ cleanup = NoCleanup
    /\ delegation = NoDelegation
    /\ hpc = "incoming_call"
    /\ call_args \in IncomingDicts
    /\ call_result = [handler |-> NoHandler, raised |-> "None", result |-> PyNone]

HandleIncomingCall ==
    /\ hpc = "incoming_call"
    /\ call_result' = handle_incoming_message(a2a, call_args, Uuid4, 2)
    /\ uuids' = IF call_result'.handler = NoHandler THEN uuids ELSE uuids + 1
    /\ hpc' = "incoming_called"
    /\ UNCHANGED <<pattern, tasks, idx, results, pipeline_data, gathered_info,
                   completed_tasks, ready_tasks, tpc, attempts, last_sent,
                   handler_outcome, workflow_result, call_args, secret_key_arg, a2a,
                   messages, as_created, verified, incoming, net_vars>>

IncomingNext == HandleIncomingCall

IncomingSpec == IncomingInit /\ [][IncomingNext]_vars

(***************************************************************************)
(* to_dict and from_dict called on their own, on messages of every type,   *)
(* with and without signature and correlation_id.                          *)
(***************************************************************************)
RoundTripMessages ==
    {A2AMessage("id1", message_type, "test_sender", "test_recipient", 1, payload,
                signature, correlation_id) :
        message_type \in MessageType,
        payload \in {<<>>, TestPayload,
                     <<[key |-> "task", value |-> "test"],
                       [key |-> "modified", value |-> "data"]>>},
        signature \in {PyNone, PyStr("invalid_signature")},
        correlation_id \in {PyNone, PyStr("corr-1")}}

NoDict == [message_type |-> ""]

RoundTripInit ==
    /\ pattern = SEQUENTIAL
    /\ NoWorkflow
    /\ NoA2A
    /\ hpc = "round_trip_call"
    /\ call_args \in RoundTripMessages
    /\ call_result = [data |-> NoDict, parsed |-> [ok |-> FALSE, error |-> ""]]

\* A2AMessage.from_dict(m.to_dict())
RoundTripCall ==
    /\ hpc = "round_trip_call"
    /\ LET data == to_dict(call_args)
       IN  call_result' = [data |-> data, parsed |-> from_dict(data)]
    /\ hpc' = "round_trip_called"
    /\ UNCHANGED <<a2a_vars, call_args, pattern, tasks, idx, results, pipeline_data,
                   gathered_info, completed_tasks, ready_tasks, tpc, attempts,
                   last_sent, handler_outcome, workflow_result>>

RoundTripNext == RoundTripCall

RoundTripSpec == RoundTripInit /\ [][RoundTripNext]_vars

(***************************************************************************)
(* Properties.                                                             *)
(***************************************************************************)
ErrorDict(msg) == [k \in {"error"} |-> msg]

\* C1: execute_workflow never lets an exception reach its caller: as soon as
\* the handler has ended a WorkflowResult is returned, FAILED with the
\* exception's message as results.error if the handler raised, COMPLETED if
\* it returned.
WorkflowNeverPropagates ==
    /\ hpc # "propagated"
    /\ handler_outcome.kind # "none" => hpc = "done"
    /\ hpc = "done" =>
          IF handler_outcome.kind = "raised"
          THEN /\ workflow_result.status = FAILED
               /\ workflow_result.results = ErrorDict(handler_outcome.message)
          ELSE /\ handler_outcome.kind = "returned"
               /\ workflow_result.status = COMPLETED

\* a sequential workflow whose only task names an unknown agent ended FAILED
FailedWorkflowReturned ==
    /\ hpc = "done" /\ pattern = SEQUENTIAL /\ N = 1
    /\ tasks[1].agent_id = "nonexistent_agent"
    /\ handler_outcome.kind = "raised"
    /\ workflow_result.status = FAILED

Completed(dep) == \E d \in TaskIdx : tasks[d].task_id = dep /\ tasks[d].status = COMPLETED

\* C3: a task's status becomes RUNNING only if every task named in its
\* dependencies has status COMPLETED at that moment.
DependencyGate ==
    [][\A t \in TaskIdx :
          (tasks[t].status # RUNNING /\ tasks'[t].status = RUNNING)
             => \A dep \in tasks[t].dependencies : Completed(dep)]_vars

\* C4: in SEQUENTIAL, once a critical task has ended FAILED with its retries
\* exhausted, no later task of the list is ever started, and the workflow
\* returned is FAILED.
CriticalFailureAborts ==
    pattern = SEQUENTIAL =>
        \A t \in TaskIdx :
            (tasks[t].metadata.critical /\ tpc[t] = "raised") =>
                /\ \A u \in TaskIdx :
                      u > t => attempts[u] = 0 /\ tasks[u].status = PENDING
                                /\ ~tasks[u].start_time
                /\ hpc \in {SEQUENTIAL, "done"}
                /\ hpc = "done" => workflow_result.status = FAILED

\* the second of three tasks is critical and failed after the first completed
CriticalTaskFailed ==
    /\ pattern = SEQUENTIAL /\ hpc = "done" /\ N >= 3
    /\ tasks[1].status = COMPLETED
    /\ tasks[2].metadata.critical /\ tpc[2] = "raised" /\ tasks[2].status = FAILED

\* C5: in SEQUENTIAL, the failure of a task that is not critical does not
\* abort the workflow: when no critical task failed, every task of the list
\* has been executed by the time the workflow returns.
NonCriticalFailureContinues ==
    (/\ pattern = SEQUENTIAL /\ hpc = "done"
     /\ \A t \in TaskIdx : tasks[t].status = FAILED => ~tasks[t].metadata.critical)
        => \A t \in TaskIdx : attempts[t] > 0

\* the previous_results dict task k must be sent: the results of tasks 1..k-1
ResultsBefore(k) ==
    [id \in {tasks[i].task_id : i \in 1..(k - 1)} |->
        tasks[CHOOSE i \in 1..(k - 1) : tasks[i].task_id = id].result]

\* C6: in SEQUENTIAL, a task is started only after every earlier task of the
\* list has finished, and the previous_results sent with task k holds exactly
\* the results of tasks 1..k-1.
SequentialOrderAndVisibility ==
    pattern = SEQUENTIAL =>
        \A k \in TaskIdx :
            /\ attempts[k] > 0 =>
                  \A i \in 1..(k - 1) : tpc[i] = "returned" /\ tasks[i].status = COMPLETED
            /\ attempts[k] = 0 => tasks[k].status = PENDING /\ ~last_sent[k].sent
            /\ last_sent[k].sent =>
                  last_sent[k].input_data["previous_results"] = ResultsBefore(k)

\* the third task was sent the two different results of the first two
ThirdTaskSeesTwoResults ==
    /\ pattern = SEQUENTIAL /\ N >= 3
    /\ last_sent[3].sent
    /\ tasks[1].result # tasks[2].result
    /\ DOMAIN last_sent[3].input_data["previous_results"] = {TaskId(1), TaskId(2)}

\* C7: in PIPELINE, once stage k has ended FAILED with its retries exhausted,
\* no later stage is ever started, and the workflow returned is FAILED.
PipelineHalt ==
    pattern = PIPELINE =>
        \A k \in TaskIdx :
            tpc[k] = "raised" =>
                /\ \A j \in TaskIdx :
                      j > k => /\ attempts[j] = 0 /\ tasks[j].status = PENDING
                               /\ ~tasks[j].start_time /\ ~last_sent[j].sent
                /\ hpc \in {PIPELINE, "done"}
                /\ hpc = "done" => workflow_result.status = FAILED

\* the second of three stages failed after the first completed
SecondStageFailed ==
    /\ pattern = PIPELINE /\ hpc = "done" /\ N >= 3
    /\ tasks[1].status = COMPLETED
    /\ tpc[2] = "raised" /\ tasks[2].status = FAILED
    /\ tasks[3].status = PENDING

CircularMessage == "Circular dependency or unresolvable dependencies detected"

\* incomplete tasks remain and none of them has all its dependencies finished
NoTaskReady ==
    /\ hpc = HIERARCHICAL
    /\ Cardinality(completed_tasks) < N
    /\ \A t \in TaskIdx :
          tasks[t].task_id \in completed_tasks
          \/ \E dep \in tasks[t].dependencies : dep \notin completed_tasks

\* C8: in HIERARCHICAL, when incomplete tasks remain and none is ready the
\* handler stops at once with the circular-dependency error and the workflow
\* is FAILED; every turn of the loop completes at least one more task, so the
\* loop ends; and a COMPLETED workflow has executed every task.
HierarchicalCycleDetection ==
    /\ [][NoTaskReady =>
             /\ hpc' = "done"
             /\ workflow_result'.status = FAILED
             /\ workflow_result'.results = ErrorDict(CircularMessage)]_vars
    /\ [][(hpc = "hierarchical_gather" /\ hpc' = HIERARCHICAL) =>
             Cardinality(completed_tasks') > Cardinality(completed_tasks)]_vars
    /\ []((pattern = HIERARCHICAL /\ hpc = "done"
            /\ workflow_result.status = COMPLETED)
              => \A t \in TaskIdx : attempts[t] > 0 /\ TaskDone(t))

\* a workflow failed on the circular-dependency error after some of its
\* tasks, but not all, were executed
CycleStoppedWorkflow ==
    /\ pattern = HIERARCHICAL /\ hpc = "done"
    /\ workflow_result.status = FAILED
    /\ handler_outcome.message = CircularMessage
    /\ \E t \in TaskIdx : attempts[t] > 0
    /\ \E t \in TaskIdx : attempts[t] = 0

IsErrorObject(v) == v.type = "dict" /\ DOMAIN v.body = {"error"}

\* C9: a PARALLEL workflow of n tasks of which k ended FAILED returns
\* COMPLETED; results has one entry per task, the error objects are exactly
\* those of the k failed tasks, every other task is COMPLETED with its own
\* result, and success_rate is (n - k) / n.
ParallelFailureTolerance ==
    (pattern = PARALLEL /\ hpc = "done") =>
        LET failed == {t \in TaskIdx : tpc[t] = "raised"}
            res == workflow_result.results
        IN  /\ workflow_result.status = COMPLETED
            /\ DOMAIN res = {tasks[t].task_id : t \in TaskIdx}
            /\ {t \in TaskIdx : IsErrorObject(res[tasks[t].task_id])} = failed
            /\ \A t \in failed :
                  /\ tasks[t].status = FAILED
                  /\ res[tasks[t].task_id] = ErrorObject(tasks[t].error)
            /\ \A t \in TaskIdx \ failed :
                  /\ tasks[t].status = COMPLETED
                  /\ tpc[t] = "returned"
                  /\ res[tasks[t].task_id] = tasks[t].result
            /\ N > 0 => workflow_result.metrics.success_rate
                           = [num |-> N - Cardinality(failed), den |-> N]

\* one task of the largest parallel workflow failed, the others completed
OneParallelTaskFailed ==
    /\ pattern = PARALLEL /\ hpc = "done" /\ N = MaxTasks
    /\ Cardinality({t \in TaskIdx : tasks[t].status = FAILED}) = 1
    /\ Cardinality({t \in TaskIdx : tasks[t].status = COMPLETED}) = N - 1

\* how often a string form occurs among the responses, and where first
Occurrences(s) ==
    Cardinality({j \in 1..Len(call_args) : Str(call_args[j].value) = s})

FirstOccurrence(s) ==
    CHOOSE j \in 1..Len(call_args) :
        /\ Str(call_args[j].value) = s
        /\ \A i \in 1..(j - 1) : Str(call_args[i].value) # s

\* C10: _determine_consensus returns None for no responses, and otherwise
\* the string form that occurs most often among the responses, the first
\* encountered of those that occur most often.
ConsensusMajority ==
    hpc = "called" =>
        IF call_args = <<>> THEN call_result = PyNone
        ELSE /\ call_result.type = "str"
             /\ LET s == call_result.body[""]
                IN  /\ Occurrences(s) > 0
                    /\ \A j \in 1..Len(call_args) :
                          LET other == Str(call_args[j].value)
                          IN  /\ Occurrences(other) <= Occurrences(s)
                              /\ Occurrences(other) = Occurrences(s)
                                    => FirstOccurrence(s) <= j

\* two string forms tie for the most occurrences, one of them shared by a
\* text and a mapping, and the first encountered was returned
ConsensusTieBroken ==
    /\ hpc = "called" /\ Len(call_args) = 4
    /\ call_result = PyStr("{'k': 'A'}")
    /\ call_args[1].value.type = "dict" /\ call_args[4].value.type = "str"
    /\ Occurrences("{'k': 'A'}") = 2 /\ Occurrences("B") = 2


\* the score of the j-th competitor: its quality plus a tenth of a point for
\* every second its execution took less than ten
TotalScore(j) ==
    LET data == call_args[j].value
    IN  data.quality_score
          + 10 * (IF data.execution_time < 10 THEN 10 - data.execution_time ELSE 0)

\* C11: _determine_winner returns the competitor with the largest total
\* score, the first of them in iteration order on a tie (None without
\* competitors); a competitor whose quality exceeds every other's by more
\* than one point wins whatever the execution times.
WinnerMaximisesScore ==
    hpc = "winner_called" =>
        IF call_args = <<>> THEN call_result = NoWinner
        ELSE /\ \E j \in 1..Len(call_args) :
                  /\ call_result = call_args[j].key
                  /\ \A i \in 1..Len(call_args) : TotalScore(i) <= TotalScore(j)
                  /\ \A i \in 1..(j - 1) : TotalScore(i) < TotalScore(j)
             /\ \A j \in 1..Len(call_args) :
                  (\A i \in 1..Len(call_args) \ {j} :
                      call_args[j].value.quality_score
                         > call_args[i].value.quality_score + 100)
                     => call_result = call_args[j].key

\* the slowest of three competitors wins: its quality is more than one
\* point above the others', which both took no time
SlowestWinsOnQuality ==
    /\ hpc = "winner_called" /\ Len(call_args) = 3
    /\ call_result = "agent2"
    /\ call_args[2].value.quality_score = 800 /\ call_args[2].value.execution_time = 12
    /\ call_args[1].value.quality_score = 500 /\ call_args[1].value.execution_time = 0
    /\ call_args[3].value.quality_score = 600 /\ call_args[3].value.execution_time = 0

Tagged(phase) == {t \in TaskIdx : tasks[t].metadata.phase = phase}

\* in COLLABORATIVE, a process task is started only after every gather task
\* has finished
ProcessAfterGather ==
    \A p \in Tagged("process") :
        attempts[p] > 0 =>
            \A g \in Tagged("gather") : tpc[g] = "returned" /\ tasks[g].status = COMPLETED

\* C12 as stated: in COLLABORATIVE, no process task is started before every
\* gather task has finished, and the gathered_info sent with a process task
\* contains the result of every gather task.
PhaseBarrierEveryResult ==
    pattern = COLLABORATIVE =>
        /\ ProcessAfterGather
        /\ \A p \in Tagged("process") :
              last_sent[p].sent =>
                  \A g \in Tagged("gather") :
                      \E a \in DOMAIN last_sent[p].input_data["gathered_info"] :
                          last_sent[p].input_data["gathered_info"][a] = tasks[g].result

\* the last gather task handed to an agent
LastGatherOf(agent) ==
    CHOOSE g \in Tagged("gather") :
        /\ tasks[g].agent_id = agent
        /\ \A h \in Tagged("gather") : tasks[h].agent_id = agent => h <= g

\* C12, amended: in COLLABORATIVE, no process task is started before every
\* gather task has finished, and the gathered_info sent with a process task
\* has one entry for every agent of a gather task, holding the result of the
\* last gather task handed to that agent.
PhaseBarrier ==
    pattern = COLLABORATIVE =>
        /\ ProcessAfterGather
        /\ \A p \in Tagged("process") :
              last_sent[p].sent =>
                  LET sent == last_sent[p].input_data["gathered_info"]
                  IN  /\ DOMAIN sent = {tasks[g].agent_id : g \in Tagged("gather")}
                      /\ \A a \in DOMAIN sent : sent[a] = tasks[LastGatherOf(a)].result

\* a process task was sent what two gather tasks of one agent, which answered
\* differently, left in gathered_info
ProcessTaskSentGathered ==
    /\ pattern = COLLABORATIVE /\ N >= 3
    /\ Tagged("gather") = {1, 2} /\ 3 \in Tagged("process")
    /\ last_sent[3].sent
    /\ tasks[1].agent_id = tasks[2].agent_id
    /\ tasks[1].result # tasks[2].result

\* C13: in COLLABORATIVE, a task whose phase is neither gather nor process
\* is never executed: nothing is sent for it, it stays PENDING with
\* start_time unset; and the workflow returned is COMPLETED unless a gather
\* task failed, also when no task carries a phase tag.
UntaggedTasksSkipped ==
    pattern = COLLABORATIVE =>
        /\ \A t \in TaskIdx \ (Tagged("gather") \cup Tagged("process")) :
              /\ attempts[t] = 0 /\ tpc[t] = "idle" /\ ~last_sent[t].sent
              /\ tasks[t].status = PENDING
              /\ ~tasks[t].start_time /\ ~tasks[t].end_time
        /\ hpc = "done" =>
              (workflow_result.status = COMPLETED
                 <=> \A g \in Tagged("gather") : tpc[g] # "raised")

\* a workflow of untagged tasks only returned COMPLETED
UntaggedWorkflowCompleted ==
    /\ pattern = COLLABORATIVE /\ hpc = "done" /\ N = MaxTasks
    /\ Tagged("none") = TaskIdx
    /\ workflow_result.status = COMPLETED

\* Python's == on two payload dicts: the same items, in whatever order
SamePayload(p, q) == {p[j] : j \in 1..Len(p)} = {q[j] : j \in 1..Len(q)}

\* the i-th message is as create_message returned it, but for the payload
PayloadChanged(i) ==
    /\ ~SamePayload(messages[i].payload, as_created[i].payload)
    /\ messages[i].signature = as_created[i].signature

\* the i-th message is as create_message returned it, but for the signature,
\* which is another string
SignatureReplaced(i) ==
    /\ SamePayload(messages[i].payload, as_created[i].payload)
    /\ messages[i].signature # as_created[i].signature
    /\ messages[i].signature.type = "str"

\* C14: a message verifies as create_message returned it, also after its
\* signature was replaced and restored; it does not verify once its payload
\* was changed after signing, nor once its signature was replaced by
\* another string.
SignatureIntegrity ==
    \A i \in 1..Len(messages) :
        (verified.message = i /\ as_created[i].signature # PyNone) =>
            /\ (/\ SamePayload(messages[i].payload, as_created[i].payload)
                /\ messages[i].signature = as_created[i].signature)
                  => verified.result
            /\ PayloadChanged(i) => ~verified.result
            /\ SignatureReplaced(i) => ~verified.result

\* C15: with a secret configured, verify_message returns true only for a
\* message whose signature equals the signature recomputed from its fields;
\* a missing signature is not accepted.
VerifiedOnlyIfSignatureMatches ==
    \A i \in 1..Len(messages) :
        (verified.message = i /\ verified.result) =>
            \/ Falsy(a2a.secret_key)
            \/ messages[i].signature = PyStr(_sign_message(a2a, messages[i]))

\* the i-th message carries a signature that is not the one recomputed from
\* its fields under the configured secret
SignatureMismatch(i) ==
    /\ ~Falsy(a2a.secret_key)
    /\ ~Falsy(messages[i].signature)
    /\ messages[i].signature # PyStr(_sign_message(a2a, messages[i]))

\* C16: handle_incoming_message answers a message that fails verification
\* with the invalid_signature error object, without invoking any
\* message-type handler and without creating a response message.
InvalidSignatureRejected ==
    /\ [](\A i \in 1..Len(messages) :
            (incoming.message = i /\ SignatureMismatch(i)) =>
                /\ incoming.result = InvalidSignature
                /\ incoming.handler = NoHandler)
    /\ [][\A i \in 1..Len(messages) :
            (incoming'.message = i /\ incoming.message # i /\ SignatureMismatch(i))
               => uuids' = uuids]_vars

\* a task request whose payload was changed after signing came in and was
\* answered with the invalid_signature error
TamperedRequestRejected ==
    /\ incoming.message = 1
    /\ messages[1].message_type = "MessageType.TASK_REQUEST"
    /\ PayloadChanged(1)
    /\ incoming.result.error = "invalid_signature"

\* C19: a protocol object constructed without a secret key creates messages
\* without a signature, and its verify_message returns true for every
\* message.
OpenMode ==
    (a2a.constructed /\ secret_key_arg = PyNone) =>
        /\ \A i \in 1..Len(as_created) : as_created[i].signature = PyNone
        /\ verified.message # 0 => verified.result

\* C17: from_dict(m.to_dict()) equals m field for field, for every message
\* type, with or without signature and correlation_id; in the dictionary the
\* message type is its string value and every other field is the message's.
RoundTrip ==
    hpc = "round_trip_called" =>
        /\ call_result.parsed.ok
        /\ call_result.parsed.message = call_args
        /\ call_result.data.message_type \notin MessageType
        /\ call_result.data.message_type = MessageTypeValue[call_args.message_type]
        /\ \A field \in DOMAIN call_args \ {"message_type"} :
              call_result.data[field] = call_args[field]

\* a coordination message with a signature and a correlation id made the
\* round trip
SignedMessageRoundTrip ==
    /\ hpc = "round_trip_called"
    /\ call_args.message_type = "MessageType.COORDINATION_MESSAGE"
    /\ call_args.signature # PyNone /\ call_args.correlation_id # PyNone
    /\ Len(call_args.payload) = 2
    /\ call_result.data.message_type = "coordination_message"

\* the fields _sign_message puts into sign_data, but for message_id
SameSignedFieldsButId(m, n) ==
    /\ m.message_type = n.message_type
    /\ m.sender_id = n.sender_id
    /\ m.recipient_id = n.recipient_id
    /\ m.timestamp = n.timestamp
    /\ SamePayload(m.payload, n.payload)

\* C18 as stated: two messages created by create_message with identical
\* sender_id, recipient_id, payload, message_type and timestamp carry identical
\* signatures.
DeterministicSigning ==
    \A i, j \in 1..Len(as_created) :
        SameSignedFieldsButId(as_created[i], as_created[j]) =>
            as_created[i].signature = as_created[j].signature

\* C18: two messages with identical message_id, sender_id, recipient_id,
\* payload, message_type and timestamp are given identical signatures under
\* the same secret key: the signature verify_message computes for a message
\* is the one create_message gave to any message with the same six fields,
\* in whatever order the payload's keys were inserted.
DeterministicSigningOfSameId ==
    \A i \in 1..Len(messages), j \in 1..Len(as_created) :
        /\ verified.message = i
        /\ verified.expected_signature # PyNone
        /\ messages[i].message_id = as_created[j].message_id
        /\ SameSignedFieldsButId(messages[i], as_created[j])
        => verified.expected_signature = as_created[j].signature

\* a message whose payload was taken apart and put back with its keys in the
\* other order was signed again
ReorderedPayloadSigned ==
    \E i \in 1..Len(messages) :
        /\ verified.message = i
        /\ verified.expected_signature # PyNone
        /\ Len(messages[i].payload) = 2
        /\ messages[i].payload # as_created[i].payload
        /\ SamePayload(messages[i].payload, as_created[i].payload)
        /\ Len(messages) = 2
        /\ SameSignedFieldsButId(as_created[1], as_created[2])

\* no agent's confidence for the query reaches that agent's threshold
NoAgentQualifies(query) ==
    \A a \in 1..Len(agent_specializations) :
        Confidence(agent_specializations[a], query)
            < agent_specializations[a].confidence_threshold

\* C20: for every query for which no agent's confidence reaches that agent's
\* confidence_threshold, in particular a query matching no keyword,
\* determine_best_agent_a2a returns (greeting_agent, 0.5); the returned agent
\* is always a registered agent and the returned confidence is never below 0.5.
RoutingFallback ==
    hpc = "routing_called" =>
        /\ NoAgentQualifies(call_args) =>
              call_result = [agent |-> "greeting_agent", confidence |-> 5000]
        /\ call_args = {} => call_result = [agent |-> "greeting_agent", confidence |-> 5000]
        /\ call_result.agent \in agent_endpoints
        /\ call_result.confidence >= 5000

\* a query with six keywords of the hr agent, among them "hierarchy", was
\* routed by fallback
SixKeywordsFallBack ==
    /\ hpc = "routing_called"
    /\ "hierarchy" \in call_args
    /\ KeywordMatches(agent_specializations[2], call_args) = 6
    /\ KeywordMatches(agent_specializations[1], call_args) = 1
    /\ call_result = [agent |-> "greeting_agent", confidence |-> 5000]

\* min(1.0, 1.2 * matched_keywords / total_keywords) of two agents compared
\* exactly: the first is at least the second
AtLeastExactly(spec, other, query) ==
    Min(10 * Len(spec.keywords), 12 * KeywordMatches(spec, query)) * Len(other.keywords)
        >= Min(10 * Len(other.keywords), 12 * KeywordMatches(other, query))
              * Len(spec.keywords)

\* min(1.0, 1.2 * matched_keywords / total_keywords) is at least the agent's
\* confidence_threshold
MeetsThresholdExactly(spec, query) ==
    Min(10 * Len(spec.keywords), 12 * KeywordMatches(spec, query)) * 1000
        >= spec.confidence_threshold * Len(spec.keywords)

SpecOf(agent_id) ==
    agent_specializations[CHOOSE a \in 1..Len(agent_specializations) :
                              agent_specializations[a].agent_id = agent_id]

ByFallback == call_result = [agent |-> "greeting_agent", confidence |-> 5000]

\* C21: determine_best_agent_a2a returns an agent other than by fallback only
\* if that agent's confidence min(1.0, 1.2 * matched / total) is at least its
\* own confidence_threshold, and the returned agent has the highest confidence
\* among all agents that meet their threshold.
RoutingSelection ==
    hpc = "routing_called" =>
        /\ ~ByFallback => MeetsThresholdExactly(SpecOf(call_result.agent), call_args)
        /\ \A a \in 1..Len(agent_specializations) :
              MeetsThresholdExactly(agent_specializations[a], call_args) =>
                  AtLeastExactly(SpecOf(call_result.agent), agent_specializations[a],
                                 call_args)

\* both agents meet their threshold and the second of the dict, with the
\* higher confidence, was returned
HigherOfTwoEligibleReturned ==
    /\ hpc = "routing_called"
    /\ KeywordMatches(agent_specializations[1], call_args) = 7
    /\ KeywordMatches(agent_specializations[2], call_args) = 8
    /\ call_result = [agent |-> "hr_agent", confidence |-> 10000]

\* the posts to /a2a that carry a message of this type to this agent
PostsOf(message_type, agent_id) ==
    {j \in 1..Len(posts) :
        /\ "message_type" \in DOMAIN posts[j].json
        /\ posts[j].json.message_type = message_type
        /\ posts[j].json.recipient_id = agent_id}

\* C22: delegate_with_a2a sends a DELEGATION_REQUEST to an agent only after a
\* HEALTH_CHECK to that agent has returned a response without an error; when
\* the health check returns an error, no delegation message is sent and an
\* error object is returned.
HealthCheckBeforeDelegate ==
    /\ \A agent_id \in agent_endpoints :
          \A j \in PostsOf("delegation_request", agent_id) :
              /\ \E i \in PostsOf("health_check", agent_id) : i < j
              /\ "health_result" \in DOMAIN call_result
              /\ ~HasError(call_result.health_result)
    /\ ("health_result" \in DOMAIN call_result /\ HasError(call_result.health_result)) =>
          /\ \A agent_id \in agent_endpoints : PostsOf("delegation_request", agent_id) = {}
          /\ "delegated" \in DOMAIN call_result
          /\ HasError(call_result.delegated)

\* a delegation request was sent to the hr agent after its health check was
\* answered
DelegationSentAfterHealthCheck ==
    /\ hpc = "delegated"
    /\ PostsOf("health_check", "hr_agent") = {1}
    /\ PostsOf("delegation_request", "hr_agent") = {2}
    /\ "payload" \in DOMAIN call_result.health_result
    /\ call_result.health_result.payload.status = "healthy"

\* the A2A call to the agent failed by timeout or connection failure
TransportFailed ==
    \/ /\ HasError(call_result.health_result)
       /\ call_result.health_result.error \in {"connection_refused", "send_failed"}
    \/ /\ "delegation_result" \in DOMAIN call_result
       /\ HasError(call_result.delegation_result)
       /\ call_result.delegation_result.error \in {"connection_refused", "send_failed"}

\* C23: when A2A delegation to an agent fails by timeout or connection
\* failure, delegate_with_a2a returns an error object tagged
\* fallback_available: true, and process_query_a2a then tries the same agent
\* over the /task endpoint.
FallbackAvailableOnTransportFailure ==
    /\ (hpc = "delegated" /\ TransportFailed) => WantsHttpFallback(call_result.delegated)
    /\ (hpc = "responded" /\ TransportFailed) =>
          \E j \in 1..Len(posts) :
              posts[j].url = AgentEndpoint[call_result.best_agent] \o "/task"

\* the dictionary lacks a field that has no default, names no message type,
\* or has a field the message has not
Malformed(data) ==
    \/ (MessageFields \ OptionalFields) \ DOMAIN data # {}
    \/ DOMAIN data \ MessageFields # {}
    \/ data.message_type \notin {MessageTypeValue[member] : member \in MessageType}

\* C24: handle_incoming_message never raises; for a dictionary with a missing
\* field, an unknown message_type string or an extra field it returns the
\* error object message_processing_failed, and for a well-formed message
\* whose type has no handler (the response types and coordination_message)
\* it returns the error object unsupported_message_type.
IncomingNeverRaises ==
    hpc = "incoming_called" =>
        /\ call_result.raised = "None"
        /\ Malformed(call_args) =>
              /\ HasError(call_result.result)
              /\ call_result.result.error = "message_processing_failed"
              /\ call_result.handler = NoHandler
        /\ (~Malformed(call_args) /\
            call_args.message_type \in
                {"discovery_response", "capability_response", "health_response",
                 "delegation_response", "task_response", "coordination_message"}) =>
              /\ call_result.result =
                    [error |-> "unsupported_message_type",
                     message_type |-> call_args.message_type]
              /\ call_result.handler = NoHandler

\* a health check without its sender_id was answered with
\* message_processing_failed
MissingFieldAnswered ==
    /\ hpc = "incoming_called"
    /\ "sender_id" \notin DOMAIN call_args
    /\ call_args.message_type = "health_check"
    /\ call_result.raised = "None"
    /\ call_result.result.error = "message_processing_failed"

\* the tasks whose coroutine returned a result
Succeeded == {t \in TaskIdx : tpc[t] = "returned"}

\* the dict holds the outcomes of these tasks, each under an entry of its own
OwnEntries(d, ts, value(_)) ==
    /\ Len(d) = Cardinality(ts)
    /\ \A t \in ts : \E j \in 1..Len(d) : d[j].value = value(t)

\* C25: in every concurrent pattern each task's outcome is recorded under an
\* entry of its own, so that no outcome overwrites another: results has an
\* entry for every task of a PARALLEL workflow and for every task run by a
\* HIERARCHICAL one; the individual_responses of CONSENSUS, the all_results of
\* COMPETITIVE and the collaborative_results of COLLABORATIVE have an entry
\* for every task that succeeded.
OutcomesUnderOwnEntries ==
    (hpc = "done" /\ handler_outcome.kind = "returned") =>
        LET res == workflow_result.results
            Result(t) == tasks[t].result
        IN  /\ pattern = PARALLEL => DOMAIN res = {tasks[t].task_id : t \in TaskIdx}
            /\ pattern = HIERARCHICAL =>
                  \A t \in TaskIdx : tpc[t] \in {"returned", "raised"} =>
                      tasks[t].task_id \in DOMAIN res
            /\ pattern = CONSENSUS =>
                  OwnEntries(res.individual_responses, Succeeded, Result)
            /\ pattern = COMPETITIVE =>
                  Len(res.all_results) = Cardinality(Succeeded)
            /\ pattern = COLLABORATIVE =>
                  Len(res.collaborative_results)
                      = Cardinality(Succeeded \cap Tagged("process"))

\* C26: when a SEQUENTIAL or PIPELINE workflow ends FAILED because a task
\* exhausted its retries, results.error, and the summary after the prefix
\* 'Workflow failed: ', is the error message of the task's last failed
\* attempt, which is the task's error field.
ErrorPropagatedUnmodified ==
    (hpc = "done" /\ pattern \in {SEQUENTIAL, PIPELINE}
       /\ workflow_result.status = FAILED) =>
        \E t \in TaskIdx :
            /\ tpc[t] = "raised"
            /\ attempts[t] = tasks[t].max_retries + 1
            /\ tasks[t].error \in AgentErrors \cup {UnknownAgentError(tasks[t])}
            /\ workflow_result.results = ErrorDict(tasks[t].error)
            /\ workflow_result.summary = "Workflow failed: " \o tasks[t].error

\* the second stage of a pipeline failed twice, the second time for good, and
\* the workflow carries its error
RetriedStageErrorCarried ==
    /\ hpc = "done" /\ pattern = PIPELINE /\ N >= 2
    /\ tpc[2] = "raised" /\ attempts[2] = 2
    /\ workflow_result.status = FAILED
    /\ workflow_result.results = ErrorDict("Task execution failed")


(***************************************************************************)
(* C27: every WorkflowResult returned by execute_workflow carries a        *)
(* success_rate equal to the number of the workflow's tasks whose final    *)
(* status is COMPLETED divided by the number of tasks, and 0 for an empty  *)
(* workflow; a SEQUENTIAL workflow whose tasks all succeed returns status  *)
(* COMPLETED with success_rate 1.0.                                        *)
(***************************************************************************)
CompletedTasks == {t \in TaskIdx : tasks[t].status = COMPLETED}

\* num / den = k / n as fractions, with 0 for n = 0
IsShare(rate, k, n) ==
    IF n = 0 THEN rate.num = 0 /\ rate.den # 0
    ELSE rate.den # 0 /\ rate.num * n = k * rate.den

SuccessRateIsCompletedShare ==
    hpc = "done" =>
        /\ IsShare(workflow_result.metrics.success_rate, Cardinality(CompletedTasks), N)
        /\ (pattern = SEQUENTIAL /\ N > 0 /\ CompletedTasks = TaskIdx) =>
              /\ workflow_result.status = COMPLETED
              /\ workflow_result.metrics.success_rate.num
                   = workflow_result.metrics.success_rate.den

PartialSuccessRateReturned ==
    /\ hpc = "done"
    /\ N = MaxTasks
    /\ Cardinality(CompletedTasks) = 1
    /\ workflow_result.metrics.success_rate = [num |-> 1, den |-> MaxTasks]



(***************************************************************************)
(* C28: the main agent's /a2a endpoint runs process_query_a2a on the task  *)
(* of a DELEGATION_REQUEST only after the message's signature has been     *)
(* verified; a delegation request whose payload was altered after signing  *)
(* is answered with the invalid-signature error and its task is never      *)
(* processed.                                                              *)
(***************************************************************************)
AlteredAfterSigning(message_data) ==
    /\ from_dict(message_data).ok
    /\ ~verify_message(a2a, from_dict(message_data).message)

DelegationProcessedOnlyVerified ==
    ("handler" \in DOMAIN incoming
       /\ incoming.message.message_type = "delegation_request"
       /\ AlteredAfterSigning(incoming.message)) =>
        /\ incoming.handler # "process_query_a2a"
        /\ call_args = ""
        /\ incoming.result = InvalidSignature



(***************************************************************************)
(* C29: a task stays in flight across retries: its status is FAILED (with  *)
(* error and end_time set) only once the attempt made with retry_count     *)
(* equal to max_retries has failed and _execute_single_task has raised; a  *)
(* task waiting for a retry is not FAILED, and a task that succeeds on a   *)
(* retry has never been FAILED.                                            *)
(***************************************************************************)
InFlightAcrossRetries ==
    /\ [](\A t \in TaskIdx :
            tasks[t].status = FAILED =>
                /\ tpc[t] = "raised"
                /\ tasks[t].retry_count = tasks[t].max_retries)
    /\ [][\A t \in TaskIdx :
            tasks[t].status = FAILED => tasks'[t].status = FAILED]_vars



(***************************************************************************)
(* C30: in HIERARCHICAL the tasks are executed level by level: all tasks   *)
(* of a ready set are launched together, and the next ready set is         *)
(* computed only after all of them have finished; a task is launched only  *)
(* after every task in its dependencies has finished, and the              *)
(* dependency_results sent with it has exactly its declared dependencies   *)
(* as keys, each mapped to that dependency's recorded result.              *)
(***************************************************************************)
Launched(t) == tpc[t] # "idle"

Finished(dep) == \E d \in TaskIdx : tasks[d].task_id = dep /\ TaskDone(d)

ExactlyDependencyResults(t, input_data) ==
    /\ "dependency_results" \in DOMAIN input_data
    /\ DOMAIN input_data["dependency_results"] = tasks[t].dependencies
    /\ \A dep \in tasks[t].dependencies :
          /\ dep \in DOMAIN results
          /\ input_data["dependency_results"][dep] = results[dep]

LevelByLevel ==
    /\ [](pattern = HIERARCHICAL =>
            /\ hpc = HIERARCHICAL => \A t \in TaskIdx : Launched(t) => TaskDone(t)
            /\ \A t \in TaskIdx :
                  Launched(t) =>
                      /\ \A dep \in tasks[t].dependencies : Finished(dep)
                      /\ ExactlyDependencyResults(t, tasks[t].input_data)
                      /\ last_sent[t].sent =>
                            ExactlyDependencyResults(t, last_sent[t].input_data))
    /\ [][pattern = HIERARCHICAL =>
            \A t \in TaskIdx :
                (~Launched(t) /\ tpc'[t] # "idle") =>
                    \A u \in TaskIdx :
                        (~Launched(u) /\ \A dep \in tasks[u].dependencies : Finished(dep))
                            => tpc'[u] # "idle"]_vars

FanInSentWithBothResults ==
    /\ pattern = HIERARCHICAL
    /\ N = 3
    /\ tasks[3].dependencies = {tasks[1].task_id, tasks[2].task_id}
    /\ tasks[1].status = FAILED
    /\ tasks[2].status = COMPLETED
    /\ last_sent[3].sent
    /\ last_sent[3].input_data["dependency_results"][tasks[1].task_id]
         = ErrorObject(tasks[1].error)
    /\ last_sent[3].input_data["dependency_results"][tasks[2].task_id] = tasks[2].result



(***************************************************************************)
(* C31: in PIPELINE the pipeline_data sent with stage k is the workflow    *)
(* context merged, in stage order, with the result of every earlier stage  *)
(* whose result is a mapping, later stages overriding earlier keys;        *)
(* results that are not mappings are not merged.                           *)
(***************************************************************************)
RECURSIVE MergedThrough(_)
MergedThrough(j) ==
    IF j = 0 THEN Context
    ELSE LET earlier == MergedThrough(j - 1)
             result == tasks[j].result
         IN  IF result.type = "dict"
             THEN [k \in DOMAIN earlier \cup DOMAIN result.body |->
                      IF k \in DOMAIN result.body THEN result.body[k] ELSE earlier[k]]
             ELSE earlier

WorkflowTerminates ==
    /\ <>(hpc = "done")
    /\ [](\A t \in TaskIdx : attempts[t] <= tasks[t].max_retries + 1)
    /\ [](pattern = HIERARCHICAL => Cardinality(completed_tasks) <= N)
    /\ [][(hpc = "hierarchical_gather" /\ hpc' # "hierarchical_gather") =>
            Cardinality(completed_tasks') > Cardinality(completed_tasks)]_vars

HierarchicalEndedAfterRetries ==
    /\ pattern = HIERARCHICAL
    /\ hpc = "done"
    /\ N = MaxLiveTasks
    /\ Cardinality(completed_tasks) = N
    /\ \E t \in TaskIdx : attempts[t] = MaxRetries + 1



(***************************************************************************)
(* C33: a task becomes COMPLETED only when the agent's reply has           *)
(* message_type delegation_response and payload status success; every      *)
(* other outcome of an attempt (unknown agent, timeout, connection error,  *)
(* a reply of another type or status) is a failed attempt under the same   *)
(* retry budget; for an unknown agent no message is sent.                  *)
(***************************************************************************)
SuccessKinds == {"success"}

\* what a failed attempt leaves: FAILED with the end time, and a retry while
\* the budget lasts
FailedAttempt(before, after, position) ==
    /\ after.status = FAILED
    /\ after.end_time
    /\ IF before.retry_count < before.max_retries
       THEN after.retry_count = before.retry_count + 1 /\ position = "sleeping"
       ELSE after.retry_count = before.retry_count /\ position = "raised"

CompletedOnlyBySuccessReply ==
    /\ [](\A t \in TaskIdx :
            tasks[t].agent_id \notin known_agents =>
                /\ ~last_sent[t].sent
                /\ tasks[t].status # COMPLETED
                /\ tpc[t] \in {"sleeping", "raised"} => tasks[t].status = FAILED)
    /\ [][\A t \in TaskIdx :
            /\ (tasks[t].status # COMPLETED /\ tasks'[t].status = COMPLETED) =>
                  /\ tpc[t] = "running"
                  /\ call_result'.task = t
                  /\ call_result'.kind \in SuccessKinds
            /\ (tpc[t] = "running" /\ tpc'[t] # "running"
                  /\ call_result'.kind \notin SuccessKinds) =>
                  FailedAttempt(tasks[t], tasks'[t], tpc'[t])
            /\ (tpc[t] = "idle" /\ tpc'[t] \notin {"idle", "running"}) =>
                  FailedAttempt([tasks[t] EXCEPT !.retry_count = 0], tasks'[t], tpc'[t])
            /\ (tpc[t] = "sleeping" /\ tpc'[t] \notin {"sleeping", "running"}) =>
                  FailedAttempt(tasks[t], tasks'[t], tpc'[t])]_vars

TimeoutRetriedThenOtherTypeFailed ==
    /\ N = 1
    /\ attempts[1] = 2
    /\ tpc[1] = "raised"
    /\ "kind" \in DOMAIN call_result
    /\ call_result.kind = "other_type"
    /\ tasks[1].error = "Task execution failed"



(***************************************************************************)
(* C34: response correlation.  Every response handle_incoming_message      *)
(* produces for a discovery, capability, health, delegation or task        *)
(* request carries the correlation_id of the request, is addressed to the  *)
(* request's sender_id, has the response type that pairs with the request  *)
(* type, and is signed by the responder.                                   *)
(***************************************************************************)
PairedResponse ==
    [request_type \in {"discovery_request", "capability_query", "health_check",
                       "delegation_request", "task_request"} |->
        CASE request_type = "discovery_request" -> "discovery_response"
          [] request_type = "capability_query" -> "capability_response"
          [] request_type = "health_check" -> "health_response"
          [] request_type = "delegation_request" -> "delegation_response"
          [] request_type = "task_request" -> "task_response"]

ExactlyOncePatterns == {SEQUENTIAL, PARALLEL, HIERARCHICAL, CONSENSUS, COMPETITIVE}

TaskIds == {tasks[t].task_id : t \in TaskIdx}

DependenciesOfId(id) ==
    UNION {tasks[d].dependencies : d \in {d \in TaskIdx : tasks[d].task_id = id}}

RECURSIVE DependsOn(_, _)
DependsOn(ids, k) ==
    IF k = 0 THEN ids
    ELSE DependsOn(ids \cup UNION {DependenciesOfId(id) : id \in ids}, k - 1)

\* no task depends on itself, directly or not, and every dependency is a task
Acyclic ==
    \A t \in TaskIdx :
        /\ tasks[t].task_id \notin DependsOn(tasks[t].dependencies, N)
        /\ tasks[t].dependencies \subseteq TaskIds

HandedOverOnce(t) == Launched(t) /\ attempts[t] = tasks[t].retry_count + 1

PostedToRecipientOnly ==
    \A i \in 1..Len(posts) :
        "recipient_id" \in DOMAIN posts[i].json =>
            LET recipient_id == posts[i].json.recipient_id
            IN  IF recipient_id \in DOMAIN a2a_known_agents
                THEN posts[i].url = a2a_known_agents[recipient_id] \o "/a2a"
                ELSE \A other \in agent_endpoints \ {recipient_id} :
                        posts[i].url # AgentEndpoint[other] \o "/a2a"



(***************************************************************************)
(* C37: in COLLABORATIVE a gather task that ends FAILED aborts the whole   *)
(* workflow (status FAILED, no process task is started), whereas a process *)
(* task that ends FAILED is tolerated: it leaves no entry in               *)
(* collaborative_results, which holds results of completed process tasks   *)
(* only, and the workflow returns COMPLETED.                               *)
(***************************************************************************)
InPhase(phase) == {t \in TaskIdx : tasks[t].metadata.phase = phase}

GatherFailed == \E g \in InPhase("gather") : tpc[g] = "raised"

FailureByPhase ==
    pattern = COLLABORATIVE =>
        /\ GatherFailed =>
              /\ \A p \in InPhase("process") : tpc[p] = "idle"
              /\ hpc = "done" => workflow_result.status = FAILED
        /\ (hpc = "done" /\ ~GatherFailed) =>
              /\ workflow_result.status = COMPLETED
              /\ LET collaborative_results == workflow_result.results.collaborative_results
                 IN  /\ \A j \in 1..Len(collaborative_results) :
                            \E p \in InPhase("process") :
                                /\ tasks[p].agent_id = collaborative_results[j].key
                                /\ tasks[p].status = COMPLETED
                                /\ tasks[p].result = collaborative_results[j].value
                     /\ \A p \in InPhase("process") :
                            tasks[p].status = COMPLETED =>
                                \E j \in 1..Len(collaborative_results) :
                                    collaborative_results[j].key = tasks[p].agent_id

FailedProcessTaskTolerated ==
    /\ pattern = COLLABORATIVE
    /\ hpc = "done"
    /\ N = 3
    /\ tasks[1].metadata.phase = "gather" /\ tasks[1].status = COMPLETED
    /\ tasks[2].metadata.phase = "process" /\ tasks[2].status = FAILED
    /\ tasks[3].metadata.phase = "process" /\ tasks[3].status = COMPLETED
    /\ workflow_result.status = COMPLETED
    /\ Len(workflow_result.results.collaborative_results) = 1



(***************************************************************************)
(* C38: under every interleaving of delegate_task calls with the cleanup   *)
(* thread's cleanup_expired_requests, neither fails on a key already       *)
(* removed or on the dict changing during the iteration, so that every     *)
(* correlation id is removed exactly once, and once delegate_task has      *)
(* returned its correlation id is not pending.                             *)
(***************************************************************************)
PendingRequestsRaceFree ==
    /\ delegation.pc # "KeyError"
    /\ cleanup.pc \notin {"KeyError", "RuntimeError"}
    /\ delegation.pc = "returned" =>
           delegation.correlation_id \notin DOMAIN pending_requests


(***************************************************************************)
(* C39: the signature covers message_id, message_type, sender_id,          *)
(* recipient_id, timestamp and payload, and nothing else: verify_message   *)
(* returns false for a signed message in which any of these differs from   *)
(* what was signed, and true for one in which none of them does, whatever  *)
(* its correlation_id has become.                                          *)
(***************************************************************************)
CoveredBySignature ==
    {"message_id", "message_type", "sender_id", "recipient_id", "timestamp", "payload"}

SignatureCoversExactly ==
    verified # NoVerify =>
        LET altered == Altered(messages[verified.message], as_created[verified.message])
        IN  /\ ~Falsy(messages[verified.message].signature)
            /\ altered \cap CoveredBySignature # {} => ~verified.result
            /\ altered \cap CoveredBySignature = {} => verified.result

CorrelationAlteredAndVerified ==
    /\ verified # NoVerify
    /\ Altered(messages[verified.message], as_created[verified.message])
           = {"correlation_id"}
    /\ verified.result

=============================================================================
